---- MODULE Spec2Model ----
(***************************************************************************)
(* A model of the redscript bytecode VM (vm/src): the arena root (operand  *)
(* stack, frame stack, context stack), the heap cells values point to, the *)
(* metadata caches, and the recursive evaluator VM::exec_with.             *)
(*                                                                         *)
(* The evaluator is recursive descent over tree-structured bytecode: an    *)
(* opcode's handler fetches the instruction, calls exec for each operand   *)
(* sub-expression and then runs its own mutate block.  The model keeps the *)
(* host call stack of active handlers in kont (one record per handler that *)
(* is waiting for an operand) and pc says whether the evaluator is about   *)
(* to fetch an instruction or has just returned an Action to the handler   *)
(* on top of kont.                                                         *)
(*                                                                         *)
(* The bytecode is part of the pool.  With pool.free the instruction       *)
(* stream is left open: every fetch draws the next instruction from the    *)
(* instruction set, so every well-formed expression tree within the bounds *)
(* is executed.  Otherwise pool.code holds each function's instructions    *)
(* and the Call record of the running function holds Frame::ip.            *)
(***************************************************************************)
EXTENDS Integers, Sequences, FiniteSets, TLC

VARIABLES pool, natives, vtables, heap, stack, frames, contexts, kont, pc, status, last, debt

vars == <<pool, natives, vtables, heap, stack, frames, contexts, kont, pc, status, last, debt>>

(***************************************************************************)
(* Bounds of the model.                                                    *)
(***************************************************************************)
\* The depth of the operand stack, the number of heap cells, the number of
\* handlers waiting on the host stack (with open bytecode, with nested calls
\* in open bytecode, and with given bytecode),
\* the number of calls of Inc in the Counter scenario, the length of an
\* array, the magnitude of an Int32 (in general, and where an out parameter
\* accumulates a sum), the number of classes of the pool.
MaxStack == 3
MaxHeap == 3
MaxKont == 4
MaxNest == 3
MaxDepth == 6
Calls == 3
MaxLen == 2
MaxInt == 2
MaxSum == 12
NumClasses == 3

(***************************************************************************)
(* Values (value.rs, enum Value).  A value is a tag and a payload; the     *)
(* payload of a heap variant is the address of its cell, and Obj::Null is  *)
(* the Obj variant with address 0.                                         *)
(***************************************************************************)
I32(n) == [t |-> "I32", v |-> n]
Bool(b) == [t |-> "Bool", v |-> IF b THEN 1 ELSE 0]
EnumVal(n) == [t |-> "EnumVal", v |-> n]
ObjNull == [t |-> "Obj", v |-> 0]
ObjInstance(r) == [t |-> "Obj", v |-> r]
ArrayVal(r) == [t |-> "Array", v |-> r]
BoxedStruct(r) == [t |-> "BoxedStruct", v |-> r]
Pinned(r) == [t |-> "Pinned", v |-> r]

\* Value::PackedStruct (no instruction makes one).
PackedStruct == [t |-> "PackedStruct", v |-> 0]

\* The numeric variants I8 .. F64: the variant's name and the payload.  The
\* floats of the model are the integers up to MaxInt and NaN, the value that
\* differs from itself.
Num(variant, x) == [t |-> variant, v |-> x]

NaN == MaxInt + 1

\* Value::Str: the address of the Gc cell that holds the text.
Str(r) == [t |-> "Str", v |-> r]

\* Value::InternStr(kind, index)
InternStr(kind, index) == [t |-> "InternStr", v |-> index, kind |-> kind]

\* enum StringType
StringTypes == {"String", "Name", "TweakDbId", "Resource"}

IntVariants == {"I8", "I16", "I32", "I64", "U8", "U16", "U32", "U64"}

FloatVariants == {"F32", "F64"}

(***************************************************************************)
(* Heap cells (the Gc allocations): an array's vector, a struct's or an    *)
(* instance's field map, a Pinned cell's content (a one-element vector).   *)
(***************************************************************************)
ArrayCell(els) == [k |-> "array", tag |-> 0, m |-> els]
StructCell(fields) == [k |-> "struct", tag |-> 0, m |-> fields]
InstanceCell(tag, fields) == [k |-> "instance", tag |-> tag, m |-> fields]
PinCell(val) == [k |-> "pin", tag |-> 0, m |-> <<val>>]

\* The Gc<Box<str>> of a Value::Str.
StrCell(text) == [k |-> "str", tag |-> 0, m |-> <<>>, text |-> text]

\* Gc::new: the new cell's address.
NewRef(h) == Len(h) + 1

\* Gc::new: the heap with the cell allocated.
Alloc(h, cell) == Append(h, cell)

\* borrow_mut on a cell followed by a write of its content.
HeapPut(h, r, m) == [h EXCEPT ![r].m = m]

IsPinned(val) == val.t = "Pinned"

\* Value::unpinned
Unpinned(h, val) == IF val.t = "Pinned" THEN h[val.v].m[1] ELSE val

(***************************************************************************)
(* The constant pool.  Classes are the pool indices 1..NumClasses and 0 is *)
(* PoolIndex::UNDEFINED, whose definition is the unnamed primitive type    *)
(* that default_pool registers first, so pool.class(0) is an Err.  The     *)
(* variable pool holds what the checks vary: each class' base, the methods *)
(* it declares and their final and static flags.  A method's pool index is *)
(* the pair <<class, name>>; a root function's is <<0, name>>.             *)
(***************************************************************************)
Classes == 1..NumClasses

MethodSeq == <<"Name", "Inc">>

MethodNames == {MethodSeq[i] : i \in DOMAIN MethodSeq}

\* ConstantPool::class(idx): Ok for a class definition, Err otherwise.
IsClass(c) == c \in Classes

\* Class::functions of class c, in declaration order.
ClassFunctions(p, c) ==
  LET Sel(n) == IF n \in p.decl[c] THEN <<<<c, n>>>> ELSE <<>>
  IN Sel(MethodSeq[1]) \o Sel(MethodSeq[2])

\* Class::fields of class c: every class declares one field, whose pool
\* index is the class' own number and whose type is pool.fields[c].
ClassFields(c) == <<c>>

\* The fields of the struct class the model's struct type names.
StructFields == <<NumClasses + 1, NumClasses + 2>>

\* IndexMap::put: insert, replacing the value of a key already present.
Put(m, key, val) == [x \in (DOMAIN m) \cup {key} |-> IF x = key THEN val ELSE m[x]]

EmptyMap == [x \in {} |-> 0]

\* The chain idx, base(idx), base(base(idx)), ... collected by the while loop
\* of ClassMetadata::get_vtable (and walked by Instance::new).
RECURSIVE Bases(_, _)
Bases(p, current) ==
  IF current = 0 THEN <<>> ELSE <<current>> \o Bases(p, p.base[current])

\* The inner loop of get_vtable over one class' functions: every function
\* that is neither final nor static is put under its name.
RECURSIVE PutFunctions(_, _, _)
PutFunctions(p, vtable, funs) ==
  IF funs = <<>> THEN vtable
  ELSE LET fun == Head(funs)
           next == IF fun \notin p.final /\ fun \notin p.static
                   THEN Put(vtable, fun[2], fun)
                   ELSE vtable
       IN PutFunctions(p, next, Tail(funs))

\* The outer loop of get_vtable: for class_idx in bases.into_iter().
RECURSIVE BuildVtable(_, _, _)
BuildVtable(p, vtable, bases) ==
  IF bases = <<>> THEN vtable
  ELSE BuildVtable(p, PutFunctions(p, vtable, ClassFunctions(p, Head(bases))), Tail(bases))

\* ClassMetadata::get_vtable on a cache miss.
ComputeVtable(p, idx) == BuildVtable(p, EmptyMap, Bases(p, idx))

NoVtable == [some |-> FALSE, map |-> EmptyMap]

\* Metadata::get_vtable: the memoised table, or the computed one.
GetVtable(p, cache, idx) ==
  IF cache[idx].some THEN cache[idx].map ELSE ComputeVtable(p, idx)

\* The class_meta cache after get_vtable(idx).
CacheVtable(p, cache, idx) ==
  IF cache[idx].some THEN cache
  ELSE [cache EXCEPT ![idx] = [some |-> TRUE, map |-> ComputeVtable(p, idx)]]

\* Metadata::is_instance_of(instance, of).  The loop starts at `of` and
\* follows base pointers; pool.class(expected).unwrap() panics when expected
\* is not a class.
RECURSIVE IsInstanceOf(_, _, _)
IsInstanceOf(p, instance, expected) ==
  IF ~IsClass(expected) THEN [panic |-> TRUE, val |-> FALSE]
  ELSE IF instance = expected THEN [panic |-> FALSE, val |-> TRUE]
  ELSE IF p.base[expected] = 0 THEN [panic |-> FALSE, val |-> FALSE]
  ELSE IsInstanceOf(p, instance, p.base[expected])

(***************************************************************************)
(* Functions, parameters, locals and types of the pool.  Root functions:   *)
(* main and callee are bytecode, the others are natives.  Methods          *)
(* <<class, name>> are bytecode without parameters or locals.              *)
(***************************************************************************)
RootFunction(name) == <<0, name>>

\* Function::flags.is_native()
IsNative(f) ==
  f[1] = 0 /\ f[2] \in {"OperatorAssignAdd", "OperatorAssignSubtract", "OperatorAdd", "Log", "Undefined"}

\* Function::parameters
Parameters(f) ==
  IF f[1] # 0 THEN <<>>
  ELSE CASE f[2] = "callee" -> <<"a", "b">>
         [] f[2] \in {"OperatorAssignAdd", "OperatorAssignSubtract", "OperatorAdd"} -> <<"l", "r">>
         [] f[2] \in {"Log", "Undefined"} -> <<"l">>
         [] OTHER -> <<>>

\* Parameter::flags.is_out() of the i-th parameter of f.
IsOut(f, i) ==
  /\ f[1] = 0
  /\ f[2] \in {"callee", "OperatorAssignAdd", "OperatorAssignSubtract"}
  /\ i = 1

\* Function::locals
Locals(p, f) ==
  IF f[1] # 0 THEN <<>>
  ELSE CASE f[2] = "main" -> p.locals
         [] f[2] = "callee" -> <<"t">>
         [] OTHER -> <<>>

\* The resolved TypeId of a local (Metadata::get_type(local.type_)).
LocalType(idx) ==
  CASE idx \in {"arr", "arr2"} -> "Array"
    [] idx \in {"s", "s2"} -> "Struct"
    [] idx = "o" -> "Ref"
    [] OTHER -> "I32"

\* TypeId::default_value for the types whose default needs no allocation.
DefaultScalar(typ) ==
  CASE typ = "I32" -> I32(0)
    [] typ \in IntVariants \cup FloatVariants -> Num(typ, 0)
    [] typ = "Bool" -> Bool(FALSE)
    [] typ = "Enum" -> EnumVal(0)
    [] typ = "String" -> InternStr("String", 0)
    [] typ = "CName" -> InternStr("Name", 0)
    [] typ = "TweakDbId" -> InternStr("TweakDbId", 0)
    [] typ = "ResRef" -> InternStr("Resource", 0)
    [] OTHER -> ObjNull

\* The types whose arm of default_value is todo!().
DefaultTodo(typ) == typ \in {"NodeRef", "CRUID", "ScriptRef", "StaticArray"}

\* TypeId::default_value(mc, meta): the value and the heap after it.  A
\* struct's fields (Int32 in this pool) get their defaults, an array is a
\* fresh empty vector.
DefaultValue(h, typ) ==
  CASE typ = "Struct" ->
         [val |-> BoxedStruct(NewRef(h)),
          heap |-> Alloc(h, StructCell([fd \in {StructFields[i] : i \in DOMAIN StructFields} |-> I32(0)]))]
    [] typ = "Array" -> [val |-> ArrayVal(NewRef(h)), heap |-> Alloc(h, ArrayCell(<<>>))]
    [] OTHER -> [val |-> DefaultScalar(typ), heap |-> h]

\* The loop of call_with_params binding every declared local to the default
\* value of its type: the local map and the heap after it.
RECURSIVE BindLocals(_, _, _)
BindLocals(h, locals, idxs) ==
  IF idxs = <<>> THEN [map |-> locals, heap |-> h]
  ELSE LET d == DefaultValue(h, LocalType(Head(idxs)))
       IN BindLocals(d.heap, Put(locals, Head(idxs), d.val), Tail(idxs))

\* The loop of call_with_params popping one value per provided parameter,
\* last parameter first: the local map and the stack after it.
RECURSIVE BindParams(_, _, _)
BindParams(stk, locals, params) ==
  IF params = <<>> THEN [map |-> locals, stack |-> stk]
  ELSE LET idx == params[Len(params)]
       IN BindParams(SubSeq(stk, 1, Len(stk) - 1), Put(locals, idx, stk[Len(stk)]),
                     SubSeq(params, 1, Len(params) - 1))

\* The number of heap cells BindLocals allocates.
RECURSIVE AllocCount(_)
AllocCount(idxs) ==
  IF idxs = <<>> THEN 0
  ELSE (IF LocalType(Head(idxs)) \in {"Struct", "Array"} THEN 1 ELSE 0) + AllocCount(Tail(idxs))

(***************************************************************************)
(* The arena root and the evaluator's control state.                       *)
(*   heap      the Gc cells, by address                                    *)
(*   stack     VMRoot::stack, the operand stack                            *)
(*   frames    VMRoot::frames, one local map per active bytecode call      *)
(*   contexts  VMRoot::contexts                                            *)
(*   natives   FunctionMetadata::native of every function                  *)
(*   vtables   ClassMetadata::vtable of every class                        *)
(*   kont      the handlers of exec_with / call_with_params that are       *)
(*             waiting for a nested exec, innermost last                   *)
(*   pc        Host: no call is running; Fetch: exec_with is about to      *)
(*             fetch an instruction; Ready: the handler on top of kont has *)
(*             its operands; Return, Exit: the Action handed to run;       *)
(*             Callback: call_void has returned Ok; Halt: the thread       *)
(*             panicked                                                    *)
(*   status    ok, the RuntimeError returned by the last call, or panic    *)
(*   last      the handler that made the last step                         *)
(***************************************************************************)
Root == [heap |-> heap, stack |-> stack, frames |-> frames, contexts |-> contexts,
         vtables |-> vtables, status |-> "ok", gc |-> FALSE]

\* A handler waiting on the host stack.  ph counts the nested execs that have
\* returned; pin is the pin flag exec_with was called with; fun, ps and base
\* are call_static's function, its indexes vector and the operand stack depth
\* when it was entered; sp is Frame::sp (or Switch's sp) and ip Frame::ip
\* (or Switch's pos);
\* loc and idx are the instruction's operand, to a SwitchLabel's targets.
KFrame(op) == [op |-> op, ph |-> 0, pin |-> FALSE, fun |-> <<0, "">>, ps |-> <<>>,
               base |-> 0, sp |-> 0, ip |-> 0, loc |-> "", idx |-> 0, to |-> <<0, 0>>]

Top(k) == k[Len(k)]

Pop(k) == SubSeq(k, 1, Len(k) - 1)

\* The number of nested exec calls of a handler with a fixed operand count.
Arity(fr) ==
  CASE fr.op \in {"AssignStructField", "AssignContext", "Equals", "NotEquals", "ArrayResize", "ArrayPush",
                  "ArrayElement", "ArrayFindFirst", "ArrayFindLast", "ArrayContains",
                  "ArrayCount", "ArrayRemove", "ArrayErase"} -> 2
    [] fr.op \in {"AssignArrayElement", "ArrayInsert"} -> 3
    [] fr.op = "Construct" -> fr.idx
    [] fr.op = "InvokeStatic" -> Len(Parameters(fr.fun))
    [] OTHER -> 1

\* A nested exec returned Ok(Continue) to the handler on top of kont.
\* call_static records the index of the parameter whose argument it was.
Ret(k) ==
  IF k = <<>> THEN k
  ELSE LET fr == Top(k)
           ps == IF fr.op = "InvokeStatic"
                 THEN Append(fr.ps, Parameters(fr.fun)[fr.ph + 1]) ELSE fr.ps
       IN IF fr.op \in {"Call", "Host"} THEN k
          ELSE Append(Pop(k), [fr EXCEPT !.ph = fr.ph + 1, !.ps = ps])

\* Where the evaluator is after that: run's loop and handlers with operands
\* left fetch again, multi-part handlers and complete ones run their block.
PcAfter(k) ==
  IF k = <<>> THEN "Host"
  ELSE LET fr == Top(k)
       IN CASE fr.op = "Call" -> "Fetch"
            [] fr.op = "Host" -> "Callback"
            [] fr.op \in {"Context", "Switch"} -> "Ready"
            [] fr.op = "AssignContext" /\ fr.ph = 1 -> "Ready"
            [] OTHER -> IF fr.ph < Arity(fr) THEN "Fetch" ELSE "Ready"

\* The pin argument of the exec_with about to run: call_static passes
\* param.flags.is_out(), every other handler calls exec (pin = false).
FetchPin ==
  /\ kont # <<>>
  /\ Top(kont).op = "InvokeStatic"
  /\ IsOut(Top(kont).fun, Top(kont).ph + 1)

\* The bounds of the model, as a guard on the state a step leads to.
RECURSIVE MaxCellLen(_)
MaxCellLen(h) ==
  IF h = <<>> THEN 0
  ELSE LET c == h[Len(h)]
           n == IF c.k = "array" THEN Len(c.m) ELSE 0
           r == MaxCellLen(SubSeq(h, 1, Len(h) - 1))
       IN IF n > r THEN n ELSE r

Within(r) ==
  /\ Len(r.stack) <= MaxStack
  /\ Len(r.heap) <= MaxHeap
  /\ MaxCellLen(r.heap) <= MaxLen

\* A handler that would go on after its member returned an error.
CatchesInContext(fr) == fr.op = "Context"

\* What the handler fr does with the Err its nested exec, call_static, run
\* or call_void returned: each of them is followed by `?`, no handler
\* matches on the result.
Catches(fr) == FALSE

\* The Err err is returned to the handler on top of k: it goes through the
\* handlers until one catches it, or to the host.
RECURSIVE Unwind(_, _)
Unwind(k, err) ==
  IF k = <<>> THEN [kont |-> <<>>, pc |-> "Host", status |-> err]
  ELSE IF Catches(Top(k)) THEN [kont |-> k, pc |-> "Fetch", status |-> "ok"]
  ELSE Unwind(Pop(k), err)

\* VM::check_gc: the allocation debt at which a collection step runs.
GcThreshold == 64000

\* VM::check_gc is called after the mutate blocks that lead to r.
CheckGc(r) == [r EXCEPT !.gc = TRUE]

\* Arena::metrics().allocation_debt() after a step from the current state to
\* root r: every cell allocated adds its size; when the step ends with
\* check_gc and the debt has reached the threshold, collect_debt pays it.
DebtAfter(r) ==
  LET d == debt + pool.bytes * (Len(r.heap) - Len(heap))
  IN IF r.gc /\ d >= GcThreshold THEN 0 ELSE d

\* The effect of a step whose mutate blocks lead to root r: on Ok the
\* evaluator goes on at next with the handlers k waiting; a RuntimeError
\* returns through every handler (?) to the host; a panic ends the thread.
Mid(name, r, k, next) ==
  /\ Within(r)
  /\ debt' = DebtAfter(r)
  /\ heap' = r.heap
  /\ stack' = r.stack
  /\ frames' = r.frames
  /\ contexts' = r.contexts
  /\ vtables' = r.vtables
  /\ last' = name
  /\ UNCHANGED <<pool, natives>>
  /\ CASE r.status = "ok" -> kont' = k /\ pc' = next /\ status' = "ok"
       [] r.status = "panic" -> kont' = k /\ pc' = "Halt" /\ status' = "panic"
       [] OTHER -> LET u == Unwind(kont, r.status)
                   IN kont' = u.kont /\ pc' = u.pc /\ status' = u.status

\* A handler returns Ok(Continue) to the handler on top of k.
Apply(name, r, k) == Mid(name, r, Ret(k), PcAfter(Ret(k)))

\* An instruction of the bytecode: the opcode and its operand (a local's or
\* a method's name in loc, a field, class, count or constant in idx, a
\* function in fun, jump targets in to).
Ins(op, loc, idx) == [op |-> op, loc |-> loc, idx |-> idx, fun |-> <<0, "">>, to |-> <<0, 0>>]

\* The index in k of the innermost Call, the Frame exec_with works on.
CallIndex(k) ==
  LET calls == {i \in DOMAIN k : k[i].op = "Call"}
  IN IF calls = {} THEN 0 ELSE CHOOSE i \in calls : \A j \in calls : j <= i

\* Function::code of the running function and Frame::ip.
CurrentCode == pool.code[kont[CallIndex(kont)].fun]

CurrentIp == kont[CallIndex(kont)].ip

\* The instruction n places after Frame::ip is ins.
InstrAt(n, ins) ==
  /\ ~pool.free
  /\ CallIndex(kont) # 0
  /\ CurrentIp + n < Len(CurrentCode)
  /\ LET cur == CurrentCode[CurrentIp + n + 1]
     IN /\ cur.op = ins.op
        /\ cur.loc = ins.loc
        /\ cur.idx = ins.idx
        /\ cur.fun = ins.fun
        /\ cur.to = ins.to

\* Frame::current_instr is ins.  A pool with free = TRUE leaves the
\* bytecode open: every instruction may come next.
CurrentInstr(ins) == pool.free \/ InstrAt(0, ins)

\* Frame::skip(n): ip += n.
Skip(k, n) ==
  IF pool.free \/ CallIndex(k) = 0 THEN k
  ELSE [k EXCEPT ![CallIndex(k)].ip = k[CallIndex(k)].ip + n]

\* Frame::next_instr: ip += 1.
Advance(k) == Skip(k, 1)

\* Frame::seek, to the instruction at index ip.
Seek(k, ip) ==
  IF pool.free \/ CallIndex(k) = 0 THEN k
  ELSE [k EXCEPT ![CallIndex(k)].ip = ip]

\* The encoded size of an instruction in bytes: the opcode and its operands
\* (I32Zero and I32One have none, I32Const four bytes, a local's or a
\* field's pool index eight, an offset two).
Size(ins) ==
  CASE ins.op = "Const" -> IF ins.idx \in {0, 1} THEN 1 ELSE 5
    [] ins.op \in {"Local", "Param", "ObjectField", "StructField", "New", "Equals"} -> 9
    [] ins.op = "Switch" -> 11
    [] ins.op = "SwitchLabel" -> 5
    [] ins.op \in {"Jump", "JumpIfFalse", "Context"} -> 3
    [] ins.op = "InvokeStatic" -> 13
    [] OTHER -> 1

\* FunctionMetadata::get_offsets: the byte location of every instruction,
\* 0 for the first, the previous location plus the previous size after.
RECURSIVE Offsets(_)
Offsets(code) ==
  IF Len(code) <= 1 THEN <<0>>
  ELSE LET prev == Offsets(SubSeq(code, 1, Len(code) - 1))
       IN Append(prev, prev[Len(prev)] + Size(code[Len(code) - 1]))

None == -1

\* Frame::location: offsets.get(ip), None past the last instruction.
Location(code, ip) == IF ip < Len(code) THEN Offsets(code)[ip + 1] ELSE None

\* Offset::absolute: the location an offset stands for, from the location
\* of the instruction that holds it.
Absolute(offset, position) == position + offset

\* offsets.binary_search(location): the index of the instruction that
\* starts there, None when no instruction does (seek's unwrap panics).
BinarySearch(code, location) ==
  LET found == {i \in 1..Len(code) : Offsets(code)[i] = location}
  IN IF found = {} THEN None ELSE (CHOOSE i \in found : TRUE) - 1

\* exec_with is entered and next_instr yields ins.
Fetch(ins) == pc = "Fetch" /\ CurrentInstr(ins)

\* exec_with fetches an instruction whose handler runs no nested exec.
Leaf(ins, r) == Fetch(ins) /\ Apply(ins.op, r, Advance(kont))

\* A handler starts waiting for its nested execs: none has returned yet.
Enter(r, k, fr) ==
  /\ Len(kont) < (IF pool.free THEN MaxKont ELSE MaxDepth)
  /\ Mid("exec", r, Append(k, [fr EXCEPT !.ph = 0]), IF Arity(fr) = 0 THEN "Ready" ELSE "Fetch")

\* exec_with fetches an instruction whose handler starts with a nested exec.
Begin(ins, fr) == Fetch(ins) /\ Enter(Root, Advance(kont), fr)

\* The handler op on top of kont has all its operands.
Ready(op) == pc = "Ready" /\ Top(kont).op = op

\* The handler on top of kont runs its last block and returns.
End(op, r) == Ready(op) /\ Apply(op, r, Pop(kont))

Panic(r) == [r EXCEPT !.status = "panic"]

\* An error that pops the local map of the running call on its way out.
RaiseAndExit(r, err) ==
  [r EXCEPT !.status = err, !.frames = IF r.frames = <<>> THEN <<>> ELSE Pop(r.frames)]

\* Err(err) is returned: nothing of the root changes.
Raise(r, err) == [r EXCEPT !.status = err]

\* VMRoot::push
PushVal(r, val) == [r EXCEPT !.stack = Append(r.stack, val)]

\* The operand stack without its n topmost values.
Drop(stk, n) == SubSeq(stk, 1, Len(stk) - n)

\* The n-th value from the top of the operand stack (1 is the top).
Peek(stk, n) == stk[Len(stk) + 1 - n]

(***************************************************************************)
(* value.rs: has_type, pin and copied.                                     *)
(***************************************************************************)
\* A resolved TypeId: the variant and, for Ref, WRef, Struct and Enum, the
\* pool index it carries (for Array, ScriptRef and StaticArray the index of
\* the element type).
TypeId(id, idx) == [id |-> id, idx |-> idx]

\* Value::has_type(typ): the pairs of variant and type of the first arm, an
\* instance against Ref or WRef by its tag, a Pinned value by its content,
\* false for every other pair.
RECURSIVE HasType(_, _, _)
HasType(h, val, typ) ==
  CASE val.t \in IntVariants \cup FloatVariants \cup {"Bool"} -> typ.id = val.t
    [] val.t = "EnumVal" -> typ.id = "Enum"
    [] val.t \in {"BoxedStruct", "PackedStruct"} -> typ.id = "Struct"
    [] val.t = "Obj" ->
         IF val.v = 0 THEN typ.id \in {"Ref", "WRef"}
         ELSE typ.id \in {"Ref", "WRef"} /\ h[val.v].tag = typ.idx
    [] val.t = "Str" -> typ.id = "String"
    [] val.t = "InternStr" ->
         CASE val.kind = "String" -> typ.id = "String"
           [] val.kind = "Name" -> typ.id = "CName"
           [] val.kind = "TweakDbId" -> typ.id = "TweakDbId"
           [] OTHER -> typ.id = "ResRef"
    [] val.t = "Array" -> typ.id = "Array"
    [] val.t = "Pinned" -> HasType(h, h[val.v].m[1], typ)
    [] OTHER -> FALSE

\* Value::pin on a slot holding val: the slot's new value and the heap.
PinValue(h, val) ==
  IF IsPinned(val) THEN [val |-> val, heap |-> h]
  ELSE [val |-> Pinned(NewRef(h)), heap |-> Alloc(h, PinCell(val))]

\* A copy by value of arrays too.
CopiedByValue(h, val) ==
  IF val.t = "BoxedStruct"
  THEN [val |-> BoxedStruct(NewRef(h)), heap |-> Alloc(h, StructCell(h[val.v].m))]
  ELSE IF val.t = "Array"
  THEN [val |-> ArrayVal(NewRef(h)), heap |-> Alloc(h, ArrayCell(h[val.v].m))]
  ELSE [val |-> val, heap |-> h]

\* Value::copied: a BoxedStruct gets a new cell holding a clone of the field
\* map, every other variant is cloned (the same address).
Copied(h, val) ==
  IF val.t = "BoxedStruct"
  THEN [val |-> BoxedStruct(NewRef(h)), heap |-> Alloc(h, StructCell(h[val.v].m))]
  ELSE [val |-> val, heap |-> h]

\* Vec::resize(n, Value::Obj(Obj::Null))
Resize(seq, n) ==
  IF Len(seq) >= n THEN SubSeq(seq, 1, n)
  ELSE seq \o [i \in 1..(n - Len(seq)) |-> ObjNull]

(***************************************************************************)
(* lib.rs, exec_with: the handlers' mutate blocks, as functions of the     *)
(* root r.  A failed unwrap is a panic, an ok_or(..)? is a RuntimeError.   *)
(***************************************************************************)
\* A read that pushes the value the slot held before it was pinned.
ReadLocalUnshared(r, idx, pin) ==
  IF r.frames = <<>> THEN Panic(r)
  ELSE IF idx \notin DOMAIN Top(r.frames) THEN Panic(r)
  ELSE LET n == Len(r.frames)
           p == IF pin THEN PinValue(r.heap, r.frames[n][idx])
                ELSE [val |-> r.frames[n][idx], heap |-> r.heap]
           c == Copied(p.heap, r.frames[n][idx])
       IN [r EXCEPT !.frames[n][idx] = p.val, !.heap = c.heap,
                    !.stack = Append(r.stack, c.val)]

\* Instr::Local(idx) and Instr::Param(idx): with_local, pin when asked, push
\* the copied slot.
ReadLocal(r, idx, pin) ==
  IF r.frames = <<>> THEN Panic(r)
  ELSE IF idx \notin DOMAIN Top(r.frames) THEN Panic(r)
  ELSE LET n == Len(r.frames)
           p == IF pin THEN PinValue(r.heap, r.frames[n][idx])
                ELSE [val |-> r.frames[n][idx], heap |-> r.heap]
           c == Copied(p.heap, p.val)
       IN [r EXCEPT !.frames[n][idx] = p.val, !.heap = c.heap,
                    !.stack = Append(r.stack, c.val)]

\* contexts.last().and_then(Obj::as_instance)
HasContext(r) == r.contexts # <<>> /\ Top(r.contexts).v # 0

\* Instr::ObjectField(idx): the field of the current context, pinned when
\* asked, copied and pushed.
ReadObjectField(r, idx, pin) ==
  IF ~HasContext(r) THEN Raise(r, "NullPointer")
  ELSE LET a == Top(r.contexts).v
       IN IF idx \notin DOMAIN r.heap[a].m THEN Panic(r)
          ELSE LET p == IF pin THEN PinValue(r.heap, r.heap[a].m[idx])
                        ELSE [val |-> r.heap[a].m[idx], heap |-> r.heap]
                   h1 == [p.heap EXCEPT ![a].m[idx] = p.val]
                   c == Copied(h1, p.val)
               IN [r EXCEPT !.heap = c.heap, !.stack = Append(r.stack, c.val)]

\* Instr::StructField(idx) after its operand: unop on the unpinned struct.
ReadStructField(r, idx, pin) ==
  IF r.stack = <<>> THEN Panic(r)
  ELSE LET val == Unpinned(r.heap, Peek(r.stack, 1))
       IN IF val.t # "BoxedStruct" THEN Panic(r)
          ELSE IF idx \notin DOMAIN r.heap[val.v].m THEN Panic(r)
          ELSE LET p == IF pin THEN PinValue(r.heap, r.heap[val.v].m[idx])
                        ELSE [val |-> r.heap[val.v].m[idx], heap |-> r.heap]
                   h1 == [p.heap EXCEPT ![val.v].m[idx] = p.val]
                   c == Copied(h1, p.val)
               IN [r EXCEPT !.heap = c.heap, !.stack = Append(Drop(r.stack, 1), c.val)]

\* Instr::This
ReadThis(r) ==
  IF r.contexts = <<>> THEN Panic(r) ELSE PushVal(r, Top(r.contexts))

\* Instance::new: the field map, walking the chain from derived to base and
\* putting the default value of each field's type; the map and the heap
\* after the defaults' allocations.
RECURSIVE InstanceFields(_, _, _, _)
InstanceFields(p, h, fields, bases) ==
  IF bases = <<>> THEN [map |-> fields, heap |-> h]
  ELSE LET fd == ClassFields(Head(bases))[1]
           d == DefaultValue(h, p.fields[fd])
       IN InstanceFields(p, d.heap, Put(fields, fd, d.val), Tail(bases))

\* Instr::New(class): Instance::new, which also fetches (and caches) the
\* class' vtable, then the push of the new instance.
NewInstance(p, r, class) ==
  IF ~IsClass(class) THEN Panic(r)
  ELSE LET f == InstanceFields(p, r.heap, EmptyMap, Bases(p, class))
       IN [r EXCEPT !.heap = Alloc(f.heap, InstanceCell(class, f.map)),
                    !.vtables = CacheVtable(p, r.vtables, class),
                    !.stack = Append(r.stack, ObjInstance(NewRef(f.heap)))]

\* Instr::Context after the receiver: pop it, unpin it, push the Obj on the
\* context stack.
ContextPush(r) ==
  IF r.stack = <<>> THEN Panic(r)
  ELSE LET val == Unpinned(r.heap, Peek(r.stack, 1))
       IN IF val.t # "Obj" THEN Panic(r)
          ELSE [r EXCEPT !.stack = Drop(r.stack, 1), !.contexts = Append(r.contexts, val)]

\* A Context that leaves its receiver on the context stack.
ContextPopNone(r) == r

\* Instr::Context after the inner expression: contexts.pop().
ContextPop(r) ==
  [r EXCEPT !.contexts = IF r.contexts = <<>> THEN <<>> ELSE Pop(r.contexts)]

\* Instr::AsRef: unop wrapping the value in a new Pinned cell.
AsRef(r) ==
  IF r.stack = <<>> THEN Panic(r)
  ELSE [r EXCEPT !.heap = Alloc(r.heap, PinCell(Peek(r.stack, 1))),
                 !.stack = Append(Drop(r.stack, 1), Pinned(NewRef(r.heap)))]

\* Instr::Deref: unop replacing the value by its unpinned clone.
Deref(r) ==
  IF r.stack = <<>> THEN Panic(r)
  ELSE [r EXCEPT !.stack = Append(Drop(r.stack, 1), Unpinned(r.heap, Peek(r.stack, 1)))]

\* An assignment that overwrites the slot whatever it holds.
AssignLocalOverwrite(r, idx) ==
  IF r.frames = <<>> \/ r.stack = <<>> THEN Panic(r)
  ELSE IF idx \notin DOMAIN Top(r.frames) THEN Panic(r)
  ELSE [r EXCEPT !.frames[Len(r.frames)][idx] = Peek(r.stack, 1), !.stack = Drop(r.stack, 1)]

\* VM::assignment, Local(idx) and Param(idx): a Pinned slot is written
\* through its cell, any other slot is overwritten.
AssignLocal(r, idx) ==
  IF r.frames = <<>> \/ r.stack = <<>> THEN Panic(r)
  ELSE IF idx \notin DOMAIN Top(r.frames) THEN Panic(r)
  ELSE LET n == Len(r.frames)
           slot == r.frames[n][idx]
           val == Peek(r.stack, 1)
       IN IF IsPinned(slot)
          THEN [r EXCEPT !.heap = HeapPut(r.heap, slot.v, <<val>>), !.stack = Drop(r.stack, 1)]
          ELSE [r EXCEPT !.frames[n][idx] = val, !.stack = Drop(r.stack, 1)]

\* VM::assignment, ObjectField(idx): the field of the current context is
\* overwritten.
AssignObjectField(r, idx) ==
  IF ~HasContext(r) THEN Raise(r, "NullPointer")
  ELSE LET a == Top(r.contexts).v
       IN IF idx \notin DOMAIN r.heap[a].m \/ r.stack = <<>> THEN Panic(r)
          ELSE [r EXCEPT !.heap = [r.heap EXCEPT ![a].m[idx] = Peek(r.stack, 1)],
                         !.stack = Drop(r.stack, 1)]

\* VM::assignment, Context then ObjectField(idx): pop the value, pop the
\* receiver (read without unpinning), overwrite its field.
AssignContextField(r, idx) ==
  IF Len(r.stack) < 2 THEN Panic(r)
  ELSE LET val == Peek(r.stack, 1)
           obj == Peek(r.stack, 2)
           rest == [r EXCEPT !.stack = Drop(r.stack, 2)]
       IN IF obj.t # "Obj" THEN Panic(rest)
          ELSE IF obj.v = 0 THEN Raise(rest, "NullPointer")
          ELSE IF idx \notin DOMAIN r.heap[obj.v].m THEN Panic(rest)
          ELSE [rest EXCEPT !.heap = [r.heap EXCEPT ![obj.v].m[idx] = val]]

\* VM::assignment, StructField(idx): pop the value, pop the struct, put.
AssignStructField(r, idx) ==
  IF Len(r.stack) < 2 THEN Panic(r)
  ELSE LET val == Peek(r.stack, 1)
           str == Unpinned(r.heap, Peek(r.stack, 2))
       IN IF str.t # "BoxedStruct" THEN Panic(r)
          ELSE [r EXCEPT !.heap = HeapPut(r.heap, str.v, Put(r.heap[str.v].m, idx, val)),
                         !.stack = Drop(r.stack, 2)]

\* An equals that compares interned strings by their index alone.
ValueEqualsAnyKind(h, lhs, rhs) ==
  LET a == Unpinned(h, lhs)
      b == Unpinned(h, rhs)
  IN IF a.t # b.t THEN FALSE
     ELSE IF a.t \in IntVariants \cup {"Bool", "EnumVal", "InternStr"} THEN a.v = b.v
     ELSE IF a.t \in FloatVariants THEN a.v = b.v /\ a.v # NaN
     ELSE IF a.t = "Str" THEN h[a.v].text = h[b.v].text
     ELSE FALSE

\* Value::equals: both sides unpinned, then one arm per pair of equal
\* variants: the numerics, Bool and EnumVal by ==, (a float NaN differs from
\* itself), Str by the text behind the Gc pointers, InternStr by kind and
\* index; every other pair is false.
ValueEquals(h, lhs, rhs) ==
  LET a == Unpinned(h, lhs)
      b == Unpinned(h, rhs)
  IN IF a.t # b.t THEN FALSE
     ELSE IF a.t \in IntVariants \cup {"Bool", "EnumVal"} THEN a.v = b.v
     ELSE IF a.t \in FloatVariants THEN a.v = b.v /\ a.v # NaN
     ELSE IF a.t = "Str" THEN h[a.v].text = h[b.v].text
     ELSE IF a.t = "InternStr" THEN a.kind = b.kind /\ a.v = b.v
     ELSE FALSE

\* val.unpinned().as_array(): the address of the array's cell, 0 for None.
AsArray(h, val) ==
  LET u == Unpinned(h, val) IN IF u.t = "Array" THEN u.v ELSE 0

(***************************************************************************)
(* array.rs: the blocks that follow the operands' evaluation.              *)
(***************************************************************************)
\* array::clear
ArrayClear(r) ==
  IF r.stack = <<>> THEN Panic(r)
  ELSE LET a == AsArray(r.heap, Peek(r.stack, 1))
       IN IF a = 0 THEN Panic(r)
          ELSE [r EXCEPT !.heap = HeapPut(r.heap, a, <<>>), !.stack = Drop(r.stack, 1)]

\* array::size
ArraySize(r) ==
  IF r.stack = <<>> THEN Panic(r)
  ELSE LET a == AsArray(r.heap, Peek(r.stack, 1))
       IN IF a = 0 THEN Panic(r)
          ELSE [r EXCEPT !.stack = Append(Drop(r.stack, 1), I32(Len(r.heap[a].m)))]

\* array::resize (also Instr::ArrayGrow): the size is an I32 cast to u64, so
\* a negative size asks for more than the address space and the allocation
\* panics.
ArrayResize(r) ==
  IF Len(r.stack) < 2 THEN Panic(r)
  ELSE LET size == Unpinned(r.heap, Peek(r.stack, 1))
           a == AsArray(r.heap, Peek(r.stack, 2))
       IN IF size.t # "I32" \/ a = 0 THEN Panic(r)
          ELSE IF size.v < 0 THEN Panic(r)
          ELSE [r EXCEPT !.heap = HeapPut(r.heap, a, Resize(r.heap[a].m, size.v)),
                         !.stack = Drop(r.stack, 2)]

\* A push at the front of the vector.
ArrayPushFront(r) ==
  IF Len(r.stack) < 2 THEN Panic(r)
  ELSE LET val == Peek(r.stack, 1)
           a == AsArray(r.heap, Peek(r.stack, 2))
       IN IF a = 0 THEN Panic(r)
          ELSE [r EXCEPT !.heap = HeapPut(r.heap, a, <<val>> \o r.heap[a].m),
                         !.stack = Drop(r.stack, 2)]

\* array::push
ArrayPush(r) ==
  IF Len(r.stack) < 2 THEN Panic(r)
  ELSE LET val == Peek(r.stack, 1)
           a == AsArray(r.heap, Peek(r.stack, 2))
       IN IF a = 0 THEN Panic(r)
          ELSE [r EXCEPT !.heap = HeapPut(r.heap, a, Append(r.heap[a].m, val)),
                         !.stack = Drop(r.stack, 2)]

\* A remove that takes out every equal element.
ArrayRemoveAll(r) ==
  IF Len(r.stack) < 2 THEN Panic(r)
  ELSE LET needle == Peek(r.stack, 1)
           a == AsArray(r.heap, Peek(r.stack, 2))
       IN IF a = 0 THEN Panic(r)
          ELSE LET m == r.heap[a].m
                   found == {i \in DOMAIN m : ValueEquals(r.heap, m[i], needle)}
                   keep == DOMAIN m \ found
                   nth(k) == CHOOSE i \in keep : Cardinality({j \in keep : j < i}) = k - 1
               IN IF found = {} THEN [r EXCEPT !.stack = Append(Drop(r.stack, 2), Bool(FALSE))]
                  ELSE [r EXCEPT !.heap = HeapPut(r.heap, a,
                                             [k \in 1..Cardinality(keep) |-> m[nth(k)]]),
                                 !.stack = Append(Drop(r.stack, 2), Bool(TRUE))]

\* array::remove: binop(array, needle); the position of the first element
\* that equals the needle is removed and true replaces the operands, false
\* when there is none.
ArrayRemove(r) ==
  IF Len(r.stack) < 2 THEN Panic(r)
  ELSE LET needle == Peek(r.stack, 1)
           a == AsArray(r.heap, Peek(r.stack, 2))
       IN IF a = 0 THEN Panic(r)
          ELSE LET m == r.heap[a].m
                   found == {i \in DOMAIN m : ValueEquals(r.heap, m[i], needle)}
               IN IF found = {} THEN [r EXCEPT !.stack = Append(Drop(r.stack, 2), Bool(FALSE))]
                  ELSE LET idx == CHOOSE i \in found : \A j \in found : i <= j
                       IN [r EXCEPT !.heap = HeapPut(r.heap, a, SubSeq(m, 1, idx - 1)
                                                                 \o SubSeq(m, idx + 1, Len(m))),
                                    !.stack = Append(Drop(r.stack, 2), Bool(TRUE))]

\* array::pop: the array loses its last element, which replaces the array
\* on the stack; pop().unwrap() panics on an empty array.
ArrayPop(r) ==
  IF r.stack = <<>> THEN Panic(r)
  ELSE LET a == AsArray(r.heap, Peek(r.stack, 1))
       IN IF a = 0 THEN Panic(r)
          ELSE IF r.heap[a].m = <<>> THEN Panic(r)
          ELSE [r EXCEPT !.heap = HeapPut(r.heap, a, Pop(r.heap[a].m)),
                         !.stack = Append(Drop(r.stack, 1), Top(r.heap[a].m))]

\* array::last
ArrayLast(r) ==
  IF r.stack = <<>> THEN Panic(r)
  ELSE LET a == AsArray(r.heap, Peek(r.stack, 1))
       IN IF a = 0 THEN Panic(r)
          ELSE IF r.heap[a].m = <<>> THEN Panic(r)
          ELSE [r EXCEPT !.stack = Append(Drop(r.stack, 1), Top(r.heap[a].m))]

\* array::element: binop(array, index), the index an unpinned I32.
ArrayElement(r) ==
  IF Len(r.stack) < 2 THEN Panic(r)
  ELSE LET index == Unpinned(r.heap, Peek(r.stack, 1))
           a == AsArray(r.heap, Peek(r.stack, 2))
       IN IF index.t # "I32" \/ a = 0 THEN Panic(r)
          ELSE IF index.v < 0 \/ index.v >= Len(r.heap[a].m) THEN Panic(r)
          ELSE [r EXCEPT !.stack = Append(Drop(r.stack, 2), r.heap[a].m[index.v + 1])]

\* VM::assignment, ArrayElement: pop the value, the index (read without
\* unpinning) and the array; array[idx] = val.
AssignArrayElement(r) ==
  IF Len(r.stack) < 3 THEN Panic(r)
  ELSE LET val == Peek(r.stack, 1)
           index == Peek(r.stack, 2)
           a == AsArray(r.heap, Peek(r.stack, 3))
       IN IF index.t # "I32" \/ a = 0 THEN Panic(r)
          ELSE IF index.v < 0 \/ index.v >= Len(r.heap[a].m) THEN Panic(r)
          ELSE [r EXCEPT !.heap = HeapPut(r.heap, a, [r.heap[a].m EXCEPT ![index.v + 1] = val]),
                         !.stack = Drop(r.stack, 3)]

(***************************************************************************)
(* lib.rs: DynamicCast, Switch, Construct, Equals.                         *)
(***************************************************************************)
\* Instr::DynamicCast(expected, _) after its operand.
DynamicCast(p, r, expected) ==
  IF r.stack = <<>> THEN Panic(r)
  ELSE LET val == Unpinned(r.heap, Peek(r.stack, 1))
       IN IF val.t # "Obj" THEN Panic(r)
          ELSE IF val.v = 0 THEN Raise([r EXCEPT !.stack = Drop(r.stack, 1)], "NullPointer")
          ELSE LET res == IsInstanceOf(p, r.heap[val.v].tag, expected)
               IN IF res.panic THEN Panic(r)
                  ELSE [r EXCEPT !.stack = Append(Drop(r.stack, 1),
                                                  IF res.val THEN val ELSE ObjNull)]

\* A FromVariant that keeps an instance of any subclass of the Ref's class.
FromVariantSubclass(p, r, typ) ==
  IF r.stack = <<>> THEN Panic(r)
  ELSE LET val == Peek(r.stack, 1)
           u == Unpinned(r.heap, val)
           keep == IF u.t = "Obj" /\ u.v # 0 /\ typ.id \in {"Ref", "WRef"}
                   THEN IsInstanceOf(p, r.heap[u.v].tag, typ.idx).val
                   ELSE HasType(r.heap, val, typ)
       IN [r EXCEPT !.stack = Append(Drop(r.stack, 1), IF keep THEN val ELSE ObjNull)]

\* Instr::FromVariant(typ) after its operand: unop keeps the value when it
\* has the type and puts Obj(Null) in its place otherwise.
FromVariant(p, r, typ) ==
  IF r.stack = <<>> THEN Panic(r)
  ELSE LET val == Peek(r.stack, 1)
       IN [r EXCEPT !.stack = Append(Drop(r.stack, 1),
                                     IF HasType(r.heap, val, typ) THEN val ELSE ObjNull)]

\* VMRoot::copy(idx): push a clone of stack[idx] (idx counts from 0).
StackCopy(r, idx) ==
  IF idx >= Len(r.stack) THEN Panic(r) ELSE PushVal(r, r.stack[idx + 1])

\* ConstantPool::strings, indexed from 0.
PoolStrings == <<"", "a">>

\* An equality that compares a heap string and an interned String by text.
BinopEqualsByText(r) ==
  IF Len(r.stack) < 2 THEN Panic(r)
  ELSE LET a == Unpinned(r.heap, Peek(r.stack, 2))
           b == Unpinned(r.heap, Peek(r.stack, 1))
           text(val) == IF val.t = "Str" THEN r.heap[val.v].text ELSE PoolStrings[val.v + 1]
           strings == /\ {a.t, b.t} = {"Str", "InternStr"}
                      /\ \A val \in {a, b} : val.t = "InternStr" => val.kind = "String"
       IN [r EXCEPT !.stack = Append(Drop(r.stack, 2),
                                     Bool(IF strings THEN text(a) = text(b)
                                          ELSE ValueEquals(r.heap, a, b)))]

\* VMRoot::binop with Value::equals, as Instr::Equals and Switch use it.
BinopEquals(r) ==
  IF Len(r.stack) < 2 THEN Panic(r)
  ELSE [r EXCEPT !.stack = Append(Drop(r.stack, 2),
                                  Bool(ValueEquals(r.heap, Peek(r.stack, 2), Peek(r.stack, 1))))]

\* An adjust_stack that leaves the stack as it is.
AdjustStackKeep(r, size) == r

\* VMRoot::adjust_stack(size)
AdjustStack(r, size) == [r EXCEPT !.stack = Resize(r.stack, size)]

\* Instr::Construct(args, class): the last args values are drained and
\* zipped with the class' fields into a new BoxedStruct.
Construct(r, args) ==
  IF Len(r.stack) < args THEN Panic(r)
  ELSE LET n == IF args < Len(StructFields) THEN args ELSE Len(StructFields)
           vals == SubSeq(r.stack, Len(r.stack) - args + 1, Len(r.stack))
           data == [fd \in {StructFields[i] : i \in 1..n} |->
                      vals[CHOOSE i \in 1..n : StructFields[i] = fd]]
       IN [r EXCEPT !.heap = Alloc(r.heap, StructCell(data)),
                    !.stack = Append(Drop(r.stack, args), BoxedStruct(NewRef(r.heap)))]

(***************************************************************************)
(* interop.rs and native.rs: host functions lifted into thunks.            *)
(***************************************************************************)
NoNative == [kind |-> "none", arity |-> 0, op |-> ""]

\* native.rs and shell/test.rs register_natives: the thunk registered under
\* each native function of the pool (Undefined has none).
RegisteredNative(name) ==
  CASE name = "OperatorAssignAdd" -> [kind |-> "out", arity |-> 2, op |-> "add"]
    [] name = "OperatorAssignSubtract" -> [kind |-> "out", arity |-> 2, op |-> "sub"]
    [] name = "OperatorAdd" -> [kind |-> "ret", arity |-> 2, op |-> "add"]
    [] name = "Log" -> [kind |-> "unit", arity |-> 1, op |-> "log"]
    [] OTHER -> NoNative

\* impl_arithmetic: the host closures, |x, y| x + y and |x, y| x - y.
HostFn(op, args) ==
  CASE op = "add" -> args[1] + args[2]
    [] op = "sub" -> args[1] - args[2]
    [] OTHER -> 0

\* FromVM for i32 (impl_prim_conversions): Ok for an I32 after unpinned.
FromVMOk(h, val) == Unpinned(h, val).t = "I32"

FromVM(h, val) == Unpinned(h, val).v

\* impl_prim_conversions!(i8, I8) .. (bool, Bool), and String: the variant
\* each host type converts to.
Constructor(ty) ==
  CASE ty = "i8" -> "I8"
    [] ty = "i16" -> "I16"
    [] ty = "i32" -> "I32"
    [] ty = "i64" -> "I64"
    [] ty = "u8" -> "U8"
    [] ty = "u16" -> "U16"
    [] ty = "u32" -> "U32"
    [] ty = "u64" -> "U64"
    [] ty = "f32" -> "F32"
    [] ty = "f64" -> "F64"
    [] ty = "bool" -> "Bool"
    [] OTHER -> "Str"

\* A host value of type ty: a number, a bool or a String.
HostNum(ty, n) == [ty |-> ty, n |-> n, b |-> FALSE, s |-> ""]

HostBool(b) == [ty |-> "bool", n |-> 0, b |-> b, s |-> ""]

HostString(text) == [ty |-> "String", n |-> 0, b |-> FALSE, s |-> text]

\* IntoVM::into_vm of a host value: the value and the heap after it.  A
\* String is boxed in a new Gc cell.
IntoVM(h, host) ==
  CASE host.ty = "String" -> [val |-> Str(NewRef(h)), heap |-> Alloc(h, StrCell(host.s))]
    [] host.ty = "bool" -> [val |-> Bool(host.b), heap |-> h]
    [] OTHER -> [val |-> Num(Constructor(host.ty), host.n), heap |-> h]

\* Result<Self, &'static str>: Ok(host value) or Err(message).
Ok(host) == [ok |-> TRUE, val |-> host, err |-> ""]

Err(ty, msg) == [ok |-> FALSE, val |-> HostNum(ty, 0), err |-> msg]

\* The match of from_vm on a value that is not unpinned first.
FromVMPinned(h, val, ty) ==
  IF ty = "String"
  THEN IF val.t = "Str" THEN Ok(HostString(h[val.v].text))
       ELSE IF val.t = "InternStr"
       THEN IF val.kind = "String"
            THEN IF val.v < Len(PoolStrings) THEN Ok(HostString(PoolStrings[val.v + 1]))
                 ELSE Err(ty, "Unknown string constant")
            ELSE Err(ty, "Invalid argument, expected String")
       ELSE Err(ty, "Invalid argument, expected String")
  ELSE IF val.t # Constructor(ty)
  THEN Err(ty, "Invalid argument, expected " \o Constructor(ty))
  ELSE IF ty = "bool" THEN Ok(HostBool(val.v = 1))
  ELSE Ok(HostNum(ty, val.v))

\* FromVM::from_vm(val, pool) for the host type ty: the value is unpinned
\* and matched against the type's variant (a String also against an
\* interned string of kind String, looked up in the pool); Ok(x) or Err.
FromVMAs(h, val, ty) ==
  LET u == Unpinned(h, val)
  IN IF ty = "String"
     THEN IF u.t = "Str" THEN Ok(HostString(h[u.v].text))
          ELSE IF u.t = "InternStr"
          THEN IF u.kind = "String"
               THEN IF u.v < Len(PoolStrings) THEN Ok(HostString(PoolStrings[u.v + 1]))
                    ELSE Err(ty, "Unknown string constant")
               ELSE Err(ty, "Invalid argument, expected String")
          ELSE Err(ty, "Invalid argument, expected String")
     ELSE IF u.t # Constructor(ty)
     THEN Err(ty, "Invalid argument, expected " \o Constructor(ty))
     ELSE IF ty = "bool" THEN Ok(HostBool(u.v = 1))
     ELSE Ok(HostNum(ty, u.v))

\* The n values a thunk pops, in declared order (the last parameter is
\* popped first).
ThunkArgs(r, n) == SubSeq(r.stack, Len(r.stack) - n + 1, Len(r.stack))

\* derive_function_unit: pop and convert the arguments, call, return None.
ThunkUnit(r, d) ==
  IF Len(r.stack) < d.arity THEN Panic(r)
  ELSE LET args == ThunkArgs(r, d.arity)
       IN IF \E i \in 1..d.arity : ~FromVMOk(r.heap, args[i]) THEN Panic(r)
          ELSE [r EXCEPT !.stack = Drop(r.stack, d.arity)]

\* derive_function_ret: pop and convert the arguments, call, return
\* Some(result), which call_native pushes.
ThunkRet(r, d) ==
  IF Len(r.stack) < d.arity THEN Panic(r)
  ELSE LET args == ThunkArgs(r, d.arity)
       IN IF \E i \in 1..d.arity : ~FromVMOk(r.heap, args[i]) THEN Panic(r)
          ELSE [r EXCEPT !.stack = Append(Drop(r.stack, d.arity),
                    I32(HostFn(d.op, [i \in 1..d.arity |-> FromVM(r.heap, args[i])])))]

\* derive_function_out without the write of the out value to the cell.
ThunkOutUnwritten(r, d) ==
  IF Len(r.stack) < d.arity THEN Panic(r)
  ELSE LET args == ThunkArgs(r, d.arity)
       IN IF ~IsPinned(args[1]) THEN Panic(r)
          ELSE IF \E i \in 1..d.arity : ~FromVMOk(r.heap, args[i]) THEN Panic(r)
          ELSE LET res == HostFn(d.op, [i \in 1..d.arity |-> FromVM(r.heap, args[i])])
               IN [r EXCEPT !.stack = Append(Drop(r.stack, d.arity), I32(res))]

\* derive_function_out: pop the arguments; the first must be a Pinned cell,
\* which receives the out value; the return value is pushed by call_native.
ThunkOut(r, d) ==
  IF Len(r.stack) < d.arity THEN Panic(r)
  ELSE LET args == ThunkArgs(r, d.arity)
       IN IF ~IsPinned(args[1]) THEN Panic(r)
          ELSE IF \E i \in 1..d.arity : ~FromVMOk(r.heap, args[i]) THEN Panic(r)
          ELSE LET res == HostFn(d.op, [i \in 1..d.arity |-> FromVM(r.heap, args[i])])
               IN [r EXCEPT !.heap = HeapPut(r.heap, args[1].v, <<I32(res)>>),
                            !.stack = Append(Drop(r.stack, d.arity), I32(res))]

\* RuntimeError::UndefinedNative(name)
UndefinedNative(name) == "UndefinedNative(" \o name \o ")"

\* Symbols::new: the names Metadata::get_function resolves, those of the
\* root definitions of the pool that are functions.
RootNames == {"main", "callee", "OperatorAssignAdd", "OperatorAssignSubtract", "OperatorAdd", "Log",
              "Undefined"}

\* What the host keeps of a register_native call: the name, the thunk and
\* whether the call returned Some.
Registration(name, function, some) ==
  [name |-> name, native |-> function, some |-> some] @@ KFrame("Host")

\* A register_native that keeps the thunk a function already has.
RegisterNativeOnce(name, function) ==
  /\ pc = "Host"
  /\ LET some == name \in RootNames
     IN /\ natives' = IF some /\ natives[name].kind = "none"
                      THEN [natives EXCEPT ![name] = function] ELSE natives
        /\ kont' = <<Registration(name, function, some)>>
  /\ last' = "register_native"
  /\ status' = "ok"
  /\ pc' = "Host"
  /\ UNCHANGED <<pool, vtables, heap, stack, frames, contexts, debt>>

\* Metadata::register_native(name, function): get_function(name)? resolves
\* the name, function_meta.get_mut(idx)? finds the function's metadata and
\* its native becomes Some(function).
RegisterNative(name, function) ==
  /\ pc = "Host"
  /\ LET some == name \in RootNames
     IN /\ natives' = IF some THEN [natives EXCEPT ![name] = function] ELSE natives
        /\ kont' = <<Registration(name, function, some)>>
  /\ last' = "register_native"
  /\ status' = "ok"
  /\ pc' = "Host"
  /\ UNCHANGED <<pool, vtables, heap, stack, frames, contexts, debt>>

\* A call_native that returns Ok when no thunk is registered.
CallNativeUnchecked(r, nat, f) ==
  LET d == nat[f[2]]
  IN CASE d.kind = "none" -> r
       [] d.kind = "unit" -> ThunkUnit(r, d)
       [] d.kind = "ret" -> ThunkRet(r, d)
       [] OTHER -> ThunkOut(r, d)

\* VM::call_native: UndefinedNative(def_name) without a registered thunk,
\* else the thunk and the push of its result.
CallNative(r, nat, f) ==
  LET d == nat[f[2]]
  IN CASE d.kind = "none" -> Raise(r, UndefinedNative(f[2]))
       [] d.kind = "unit" -> ThunkUnit(r, d)
       [] d.kind = "ret" -> ThunkRet(r, d)
       [] OTHER -> ThunkOut(r, d)

\* An exit that pops the local map and leaves the operand stack as it is.
ExitKeep(r, sp, returns) ==
  IF returns /\ r.stack = <<>> THEN Panic(r)
  ELSE [r EXCEPT !.frames = IF r.frames = <<>> THEN <<>> ELSE Pop(r.frames)]

\* VM::exit: keep the return value, truncate (or pad) the stack to frame.sp,
\* pop the local map.
Exit(r, sp, returns) ==
  IF returns /\ r.stack = <<>> THEN Panic(r)
  ELSE [r EXCEPT !.stack = IF returns THEN Append(Resize(Drop(r.stack, 1), sp), Peek(r.stack, 1))
                            ELSE Resize(r.stack, sp),
                 !.frames = IF r.frames = <<>> THEN <<>> ELSE Pop(r.frames)]

\* A call that binds the popped values to the parameters in pop order.
EnterFunctionForward(p, r, f, params) ==
  IF Len(r.stack) < Len(params) THEN Panic(r)
  ELSE LET bp == BindParams(r.stack, EmptyMap, [i \in 1..Len(params) |-> params[Len(params) + 1 - i]])
           bl == BindLocals(r.heap, bp.map, Locals(p, f))
       IN [r EXCEPT !.stack = bp.stack, !.heap = bl.heap,
                    !.frames = Append(r.frames, bl.map)]

\* call_with_params for a bytecode function, up to the construction of the
\* Frame: bind the provided parameters from the stack, bind the locals to
\* their defaults, push the local map.
EnterFunction(p, r, f, params) ==
  IF Len(r.stack) < Len(params) THEN Panic(r)
  ELSE LET bp == BindParams(r.stack, EmptyMap, params)
           bl == BindLocals(r.heap, bp.map, Locals(p, f))
       IN [r EXCEPT !.stack = bp.stack, !.heap = bl.heap,
                    !.frames = Append(r.frames, bl.map)]

(***************************************************************************)
(* Actions: the host's entry points and the call machinery.                *)
(***************************************************************************)
\* The value an I32 payload may take in the model.
Bounded(val) == val.t = "I32" => val.v \in (0 - pool.ints)..pool.ints

\* call_static's check after the arguments: a ParamEnd is skipped.
SkipParamEnd(k) == IF InstrAt(0, Ins("ParamEnd", "", 0)) THEN Skip(k, 1) ELSE k

\* A call_void that pushes the arguments before it checks their number.
HostCallPushFirst(entry, f, args) ==
  /\ pc = "Host"
  /\ IF Len(args) # Len(Parameters(f))
     THEN Mid("call_void", Raise([Root EXCEPT !.stack = stack \o args], "InvalidInteropParameters"),
              <<>>, "Host")
     ELSE Mid("call_void", [Root EXCEPT !.stack = stack \o args],
              <<[KFrame("Host") EXCEPT !.loc = entry],
                [KFrame("InvokeStatic") EXCEPT !.fun = f, !.ph = Len(args),
                                               !.ps = Parameters(f), !.base = Len(stack)]>>,
              "Ready")

\* VM::call_void(idx, args), entered as call_void or through
\* call_with_callback (entry): the argument count is checked, the arguments
\* are pushed and call_with_params is called with every declared parameter.
HostCall(entry, f, args) ==
  /\ pc = "Host"
  /\ IF Len(args) # Len(Parameters(f))
     THEN Mid("call_void", Raise(Root, "InvalidInteropParameters"), <<>>, "Host")
     ELSE Mid("call_void", [Root EXCEPT !.stack = stack \o args],
              <<[KFrame("Host") EXCEPT !.loc = entry],
                [KFrame("InvokeStatic") EXCEPT !.fun = f, !.ph = Len(args),
                                               !.ps = Parameters(f), !.base = Len(stack)]>>,
              "Ready")

\* call_void returned Ok: call_with_callback hands root.pop() to the
\* callback, call_void just returns.
HostReturn ==
  /\ pc = "Callback"
  /\ Mid("Callback",
         [Root EXCEPT !.stack = IF Top(kont).loc = "call_with_callback" /\ stack # <<>>
                                THEN Drop(stack, 1) ELSE stack],
         <<>>, "Host")

\* Instr::InvokeStatic(_, _, idx, _): call_static starts evaluating the
\* arguments of idx.
InvokeStatic(f) ==
  Begin([Ins("InvokeStatic", "", 0) EXCEPT !.fun = f],
        [KFrame("InvokeStatic") EXCEPT !.fun = f, !.base = Len(stack)])

\* Instr::InvokeVirtual(_, _, name, _): the tag of the current context's
\* instance, its vtable, the entry under name, then call_static.
InvokeVirtual(name) ==
  /\ Fetch(Ins("InvokeVirtual", name, 0))
  /\ IF ~HasContext(Root)
     THEN Mid("InvokeVirtual", Raise(Root, "NullPointer"), <<>>, "Host")
     ELSE LET tag == heap[Top(contexts).v].tag
              vtable == GetVtable(pool, vtables, tag)
              r == [Root EXCEPT !.vtables = CacheVtable(pool, vtables, tag)]
          IN IF name \notin DOMAIN vtable
             THEN Mid("InvokeVirtual", Panic(r), kont, "Halt")
             ELSE Enter(r, Advance(kont),
                        [KFrame("InvokeStatic") EXCEPT !.fun = vtable[name], !.base = Len(stack),
                                                       !.loc = name, !.idx = tag])

\* Instr::ParamEnd fetched by exec_with: nothing.
ExecParamEnd == Leaf(Ins("ParamEnd", "", 0), Root)

\* A Nop argument whose parameter is recorded like any other.
ExecNopRecorded == Leaf(Ins("Nop", "", 0), Root)

\* Instr::Nop: nothing.  As an argument of call_static it stands for an
\* omitted argument: the parameter's index is not recorded.
ExecNop ==
  /\ Fetch(Ins("Nop", "", 0))
  /\ Top(kont).op \in {"InvokeStatic", "Call"}
  /\ LET k == Advance(kont)
         fr == Top(k)
         k1 == IF fr.op = "Call" THEN k ELSE Append(Pop(k), [fr EXCEPT !.ph = fr.ph + 1])
     IN Mid("Nop", Root, k1, PcAfter(k1))

\* call_with_params for a native function: call_native.
CallNativeFunction ==
  /\ Ready("InvokeStatic")
  /\ IsNative(Top(kont).fun)
  /\ LET r == CallNative(Root, natives, Top(kont).fun)
     IN /\ IF r.stack = <<>> THEN TRUE ELSE Bounded(Top(r.stack))
        /\ Apply("CallNative", r, SkipParamEnd(Pop(kont)))

\* call_with_params for a bytecode function: the locals are bound, the
\* Frame is made with sp the depth of the stack and run starts.
CallFunction ==
  /\ Ready("InvokeStatic")
  /\ ~IsNative(Top(kont).fun)
  /\ LET fr == Top(kont)
         r == EnterFunction(pool, Root, fr.fun, fr.ps)
     IN Mid("Call", r,
            Append(SkipParamEnd(Pop(kont)),
                   [KFrame("Call") EXCEPT !.fun = fr.fun, !.base = fr.base, !.sp = Len(r.stack)]),
            "Fetch")

\* A Return that evaluates an expression whatever follows it.
ReturnAnyway ==
  /\ Fetch(Ins("Return", "", 0))
  /\ Top(kont).op = "Call"
  /\ Enter(Root, Advance(kont), KFrame("Return"))

\* Instr::Return followed by an expression: exec it, then Action::Return.
Return ==
  /\ Fetch(Ins("Return", "", 0))
  /\ Top(kont).op = "Call"
  /\ IF pool.free THEN TRUE ELSE ~InstrAt(1, Ins("Nop", "", 0))
  /\ Enter(Root, Advance(kont), KFrame("Return"))

ReturnValue ==
  /\ Ready("Return")
  /\ Mid("Return", Root, Pop(kont), "Return")

\* Instr::Return followed by Nop: Action::Exit.
ReturnVoid ==
  /\ Fetch(Ins("Return", "", 0))
  /\ Top(kont).op = "Call"
  /\ IF pool.free THEN TRUE ELSE InstrAt(1, Ins("Nop", "", 0))
  /\ Mid("Return", Root, Advance(kont), "Exit")

\* next_instr is None at the end of the code: Action::Exit.
CodeEnd ==
  /\ pc = "Fetch"
  /\ ~pool.free
  /\ Top(kont).op = "Call"
  /\ CurrentIp >= Len(CurrentCode)
  /\ Mid("CodeEnd", Root, Advance(kont), "Exit")

\* run returned to call_with_params: VM::exit, and call_with_params returns
\* to its caller.
CallExit ==
  /\ pc \in {"Return", "Exit"}
  /\ Top(kont).op = "Call"
  /\ Apply("Exit", Exit(Root, Top(kont).sp, pc = "Return"), Pop(kont))

(***************************************************************************)
(* Actions: the instructions of exec_with and VM::assignment.              *)
(***************************************************************************)
\* The constant instructions (Null, I32Zero, I32One, I32Const, TrueConst,
\* FalseConst, EnumConst, WeakRefNull): push the value.
ExecConst(val) == Leaf(Ins("Const", val.t, val.v), PushVal(Root, val))

\* The instructions whose arm of exec_with is todo!().
TodoInstrs ==
  {"Breakpoint", "Target", "ExternalVar", "Skip", "RefStringEqualsString", "StringEqualsRefString",
   "RefStringNotEqualsString", "StringNotEqualsRefString", "Delete", "StartProfiling",
   "ArraySort", "ArraySortByPredicate", "StaticArraySize", "StaticArrayFindFirst",
   "StaticArrayFindFirstFast", "StaticArrayFindLast", "StaticArrayFindLastFast",
   "StaticArrayContains", "StaticArrayContainsFast", "StaticArrayCount", "StaticArrayCountFast",
   "StaticArrayLast", "StaticArrayElement", "VariantTypeName"}

\* One of them is fetched: todo!() panics with "not yet implemented".
ExecTodo(op) ==
  /\ op \in TodoInstrs
  /\ Fetch(Ins(op, "", 0))
  /\ Mid(op, Panic(Root), Advance(kont), "Halt")

\* Instr::Local(idx) and Instr::Param(idx)
ExecLocal(idx) == Leaf(Ins("Local", idx, 0), ReadLocal(Root, idx, FetchPin))

ExecParam(idx) == Leaf(Ins("Param", idx, 0), ReadLocal(Root, idx, FetchPin))

\* Instr::ObjectField(idx)
ExecObjectField(idx) == Leaf(Ins("ObjectField", "", idx), ReadObjectField(Root, idx, FetchPin))

\* Instr::This
ExecThis == Leaf(Ins("This", "", 0), ReadThis(Root))

\* Instr::New(class)
ExecNew(class) == Leaf(Ins("New", "", class), CheckGc(NewInstance(pool, Root, class)))

\* Instr::StructField(idx): exec the struct, then read the field.
StructField(idx) ==
  Begin(Ins("StructField", "", idx), [KFrame("StructField") EXCEPT !.idx = idx, !.pin = FetchPin])

StructFieldEnd ==
  End("StructField", ReadStructField(Root, Top(kont).idx, Top(kont).pin))

\* Instr::AsRef
ExecAsRef == Begin(Ins("AsRef", "", 0), KFrame("AsRef"))

AsRefEnd == End("AsRef", AsRef(Root))

\* Instr::Deref
ExecDeref == Begin(Ins("Deref", "", 0), KFrame("Deref"))

DerefEnd == End("Deref", Deref(Root))

\* Instr::Assign with a Local or Param target: the target instruction is
\* fetched by assignment, the value is evaluated and stored.
Assign(idx) ==
  /\ Fetch(Ins("Assign", "", 0))
  /\ IF pool.free THEN TRUE
     ELSE IF InstrAt(1, Ins("Local", idx, 0)) THEN TRUE ELSE InstrAt(1, Ins("Param", idx, 0))
  /\ Enter(Root, Skip(kont, 2), [KFrame("AssignLocal") EXCEPT !.loc = idx])

AssignEnd == End("AssignLocal", AssignLocal(Root, Top(kont).loc))

\* Instr::Assign with an ObjectField target.
AssignField(idx) ==
  /\ Fetch(Ins("Assign", "", 0))
  /\ IF pool.free THEN TRUE ELSE InstrAt(1, Ins("ObjectField", "", idx))
  /\ Enter(Root, Skip(kont, 2), [KFrame("AssignObjectField") EXCEPT !.idx = idx])

AssignFieldEnd == End("AssignObjectField", AssignObjectField(Root, Top(kont).idx))

\* Instr::Assign with a StructField target: the struct, then the value.
AssignStruct(idx) ==
  /\ Fetch(Ins("Assign", "", 0))
  /\ IF pool.free THEN TRUE ELSE InstrAt(1, Ins("StructField", "", idx))
  /\ Enter(Root, Skip(kont, 2), [KFrame("AssignStructField") EXCEPT !.idx = idx])

AssignStructEnd == End("AssignStructField", AssignStructField(Root, Top(kont).idx))

\* Instr::Assign with an ArrayElement target: the array, the index, the
\* value.
AssignElement ==
  /\ Fetch(Ins("Assign", "", 0))
  /\ IF pool.free THEN TRUE ELSE InstrAt(1, Ins("ArrayElement", "", 0))
  /\ Enter(Root, Skip(kont, 2), KFrame("AssignArrayElement"))

AssignElementEnd == End("AssignArrayElement", AssignArrayElement(Root))

\* Instr::Assign with a Context target: the receiver is evaluated, the next
\* instruction must be ObjectField, then the value is evaluated.
AssignContext ==
  /\ Fetch(Ins("Assign", "", 0))
  /\ IF pool.free THEN TRUE ELSE InstrAt(1, Ins("Context", "", 0))
  /\ Enter(Root, Skip(kont, 2), KFrame("AssignContext"))

AssignContextTarget(idx) ==
  /\ Ready("AssignContext")
  /\ Top(kont).ph = 1
  /\ CurrentInstr(Ins("ObjectField", "", idx))
  /\ Mid("AssignContextTarget", Root,
         Append(Pop(Advance(kont)), [Top(kont) EXCEPT !.idx = idx]), "Fetch")

\* Any other instruction after the receiver: UnsupportedAssignmentOperand;
\* next_instr().unwrap() panics at the end of the code.
AssignContextUnsupported ==
  /\ Ready("AssignContext")
  /\ Top(kont).ph = 1
  /\ IF pool.free
     THEN Mid("AssignContextTarget", Raise(Root, "UnsupportedAssignmentOperand"), Advance(kont), "Host")
     ELSE IF CurrentIp >= Len(CurrentCode)
     THEN Mid("AssignContextTarget", Panic(Root), kont, "Halt")
     ELSE /\ CurrentCode[CurrentIp + 1].op # "ObjectField"
          /\ Mid("AssignContextTarget", Raise(Root, "UnsupportedAssignmentOperand"),
                 Advance(kont), "Host")

\* The instructions VM::assignment has an arm for, but for Param.
AssignTargetsNoParam == {"Local", "ObjectField", "StructField", "ArrayElement", "Context"}

\* The instructions VM::assignment has an arm for.
AssignTargets == {"Local", "Param", "ObjectField", "StructField", "ArrayElement", "Context"}

\* Instr::Assign followed by any other instruction: the arm `_` returns
\* UnsupportedAssignmentOperand; next_instr().unwrap() panics at the end of
\* the code.
AssignUnsupported ==
  /\ Fetch(Ins("Assign", "", 0))
  /\ IF pool.free
     THEN Mid("Assign", Raise(Root, "UnsupportedAssignmentOperand"), Skip(kont, 2), "Host")
     ELSE IF CurrentIp + 1 >= Len(CurrentCode)
     THEN Mid("Assign", Panic(Root), Advance(kont), "Halt")
     ELSE /\ CurrentCode[CurrentIp + 2].op \notin AssignTargets
          /\ Mid("Assign", Raise(Root, "UnsupportedAssignmentOperand"), Skip(kont, 2), "Host")

AssignContextEnd ==
  /\ Ready("AssignContext")
  /\ Top(kont).ph = 2
  /\ Apply("AssignContext", AssignContextField(Root, Top(kont).idx), Pop(kont))

\* Instr::Context: exec the receiver, push it on the context stack, exec
\* the inner expression, pop the context stack.
Context == Begin(Ins("Context", "", 0), KFrame("Context"))

ContextEnter ==
  /\ Ready("Context")
  /\ Top(kont).ph = 1
  /\ Mid("ContextEnter", ContextPush(Root), kont, "Fetch")

ContextEnd ==
  /\ Ready("Context")
  /\ Top(kont).ph = 2
  /\ Apply("Context", ContextPop(Root), Pop(kont))

\* Instr::DynamicCast(expected, _)
ExecDynamicCast(expected) ==
  Begin(Ins("DynamicCast", "", expected), [KFrame("DynamicCast") EXCEPT !.idx = expected])

DynamicCastEnd == End("DynamicCast", DynamicCast(pool, Root, Top(kont).idx))

\* Instr::FromVariant(typ): the type is resolved, then the operand runs.
ExecFromVariant(typ) ==
  Begin(Ins("FromVariant", typ.id, typ.idx),
        [KFrame("FromVariant") EXCEPT !.loc = typ.id, !.idx = typ.idx])

FromVariantEnd ==
  End("FromVariant", FromVariant(pool, Root, TypeId(Top(kont).loc, Top(kont).idx)))

\* Instr::Construct(args, class)
ExecConstruct(args) ==
  Begin(Ins("Construct", "", args), [KFrame("Construct") EXCEPT !.idx = args])

ConstructEnd == End("Construct", Construct(Root, Top(kont).idx))

\* Instr::Equals
ExecEquals == Begin(Ins("Equals", "", 0), KFrame("Equals"))

EqualsEnd == End("Equals", BinopEquals(Root))

\* The array instructions: exec the operands, then the block of array.rs.
ExecArray(op) == Begin(Ins(op, "", 0), KFrame(op))

ArrayClearEnd == End("ArrayClear", ArrayClear(Root))

ArraySizeEnd == End("ArraySize", ArraySize(Root))

ArrayResizeEnd == End("ArrayResize", ArrayResize(Root))

ArrayPushEnd == End("ArrayPush", ArrayPush(Root))

ArrayPopEnd == End("ArrayPop", ArrayPop(Root))

ArrayLastEnd == End("ArrayLast", ArrayLast(Root))

ArrayElementEnd == End("ArrayElement", ArrayElement(Root))

ArrayRemoveEnd == End("ArrayRemove", ArrayRemove(Root))

\* Instr::Switch: sp is the depth of the stack before the scrutinee is
\* evaluated; pos (kept in the handler's ip) is not assigned yet.
Switch ==
  Begin(Ins("Switch", "", 0), [KFrame("Switch") EXCEPT !.sp = Len(stack), !.ip = None])

\* The instruction at Frame::ip when it is a SwitchLabel (any label when the
\* bytecode is open).
LabelHere ==
  IF pool.free THEN Ins("SwitchLabel", "", 0)
  ELSE IF CurrentIp < Len(CurrentCode) THEN CurrentCode[CurrentIp + 1]
  ELSE Ins("Nop", "", 0)

\* pos at the loop's head: frame.location() after the scrutinee, the
\* location of the next label after a label that was not equal.
SwitchPos ==
  IF pool.free THEN 0
  ELSE IF Top(kont).ip = None THEN Location(CurrentCode, CurrentIp)
  ELSE Top(kont).ip

\* frame.location().unwrap() when the scrutinee ends the code: a panic.
SwitchUnwrap ==
  /\ Ready("Switch")
  /\ Top(kont).ph = 1
  /\ SwitchPos = None
  /\ Mid("Switch", Panic(Root), kont, "Halt")

\* The loop's head with a SwitchLabel at ip: fetch it, copy(sp), exec the
\* label's expression.
SwitchLabel ==
  /\ Ready("Switch")
  /\ Top(kont).ph = 1
  /\ SwitchPos # None
  /\ LabelHere.op = "SwitchLabel"
  /\ Mid("SwitchLabel", StackCopy(Root, Top(kont).sp),
         Append(Pop(Advance(kont)), [Top(kont) EXCEPT !.to = LabelHere.to, !.ip = SwitchPos]),
         "Fetch")

\* frame.seek(location) from the handler fr, which leaves (done) or goes
\* back to the loop's head at the next label.
SwitchSeek(r, fr, location, done) ==
  LET index == IF pool.free THEN 0 ELSE BinarySearch(CurrentCode, location)
      k == Seek(Pop(kont), index)
  IN IF index = None THEN Mid("SwitchCompare", Panic(r), kont, "Halt")
     ELSE IF done THEN Apply("Switch", AdjustStack(r, fr.sp), k)
     ELSE Mid("SwitchCompare", r, Append(k, [fr EXCEPT !.ph = 1, !.ip = location]), "Ready")

\* A comparison that seeks the next label when the label is equal and the
\* body when it is not.
SwitchCompareSwapped ==
  /\ Ready("Switch")
  /\ Top(kont).ph = 2
  /\ LET b == BinopEquals(Root)
         fr == Top(kont)
         r == [b EXCEPT !.stack = Drop(b.stack, 1)]
     IN IF b.status # "ok" THEN Mid("SwitchCompare", b, kont, "Halt")
        ELSE IF Peek(b.stack, 1).v = 1
        THEN SwitchSeek(r, fr, Absolute(fr.to[1], fr.ip), TRUE)
        ELSE SwitchSeek(r, fr, Absolute(fr.to[2], fr.ip), FALSE)

\* The loop's body after the label's expression: compare, pop the Bool; on
\* equal seek the body, leave the loop and adjust_stack(sp), otherwise seek
\* the next label.
SwitchCompare ==
  /\ Ready("Switch")
  /\ Top(kont).ph = 2
  /\ LET b == BinopEquals(Root)
         fr == Top(kont)
         r == [b EXCEPT !.stack = Drop(b.stack, 1)]
     IN IF b.status # "ok" THEN Mid("SwitchCompare", b, kont, "Halt")
        ELSE IF Peek(b.stack, 1).v = 1
        THEN SwitchSeek(r, fr, Absolute(fr.to[2], fr.ip), TRUE)
        ELSE SwitchSeek(r, fr, Absolute(fr.to[1], fr.ip), FALSE)

\* The loop's head without a SwitchLabel at ip: adjust_stack(sp).
SwitchEnd ==
  /\ Ready("Switch")
  /\ Top(kont).ph = 1
  /\ SwitchPos # None
  /\ IF pool.free THEN TRUE ELSE LabelHere.op # "SwitchLabel"
  /\ Apply("Switch", AdjustStack(Root, Top(kont).sp), Pop(kont))

\* Instr::SwitchLabel and Instr::SwitchDefault fetched by exec_with: nothing.
ExecSwitchLabel(next, body) ==
  Leaf([Ins("SwitchLabel", "", 0) EXCEPT !.to = <<next, body>>], Root)

ExecSwitchDefault == Leaf(Ins("SwitchDefault", "", 0), Root)

\* frame.seek(location) at the end of a handler that returns to k: the ip
\* becomes the index binary_search finds, and unwrap panics when no
\* instruction starts at location.
FrameSeek(name, r, k, location) ==
  LET index == IF pool.free THEN 0 ELSE BinarySearch(CurrentCode, location)
  IN IF index = None THEN Mid(name, Panic(r), kont, "Halt")
     ELSE Apply(name, r, Seek(k, index))

\* The location exec_with read before it fetched the instruction.
FetchLocation == IF pool.free THEN 0 ELSE Location(CurrentCode, CurrentIp)

JumpOp(op, offset) == [Ins(op, "", 0) EXCEPT !.to = <<offset, 0>>]

\* Instr::Jump(offset): seek(offset.absolute(location)).
ExecJump(offset) ==
  /\ Fetch(JumpOp("Jump", offset))
  /\ FrameSeek("Jump", Root, kont, Absolute(offset, FetchLocation))

\* Instr::JumpIfFalse(offset): exec the condition, pop the Bool, seek when
\* it is false.
JumpIfFalse(offset) ==
  Begin(JumpOp("JumpIfFalse", offset),
        [KFrame("JumpIfFalse") EXCEPT !.to = <<offset, 0>>, !.ip = FetchLocation])

\* A conditional jump that seeks when the condition is true.
JumpIfTrueEnd ==
  /\ Ready("JumpIfFalse")
  /\ LET fr == Top(kont)
         r == [Root EXCEPT !.stack = Drop(stack, 1)]
     IN IF stack = <<>> THEN Mid("JumpIfFalse", Panic(Root), kont, "Halt")
        ELSE IF Unpinned(heap, Top(stack)).t # "Bool" THEN Mid("JumpIfFalse", Panic(Root), kont, "Halt")
        ELSE IF Unpinned(heap, Top(stack)).v = 0 THEN Apply("JumpIfFalse", r, Pop(kont))
        ELSE FrameSeek("JumpIfFalse", r, Pop(kont), Absolute(fr.to[1], fr.ip))

JumpIfFalseEnd ==
  /\ Ready("JumpIfFalse")
  /\ LET fr == Top(kont)
         r == [Root EXCEPT !.stack = Drop(stack, 1)]
     IN IF stack = <<>> THEN Mid("JumpIfFalse", Panic(Root), kont, "Halt")
        ELSE IF Unpinned(heap, Top(stack)).t # "Bool" THEN Mid("JumpIfFalse", Panic(Root), kont, "Halt")
        ELSE IF Unpinned(heap, Top(stack)).v = 1 THEN Apply("JumpIfFalse", r, Pop(kont))
        ELSE FrameSeek("JumpIfFalse", r, Pop(kont), Absolute(fr.to[1], fr.ip))

(***************************************************************************)
(* The initial state: VM::new on a pool.                                   *)
(***************************************************************************)
NativeNames == {"OperatorAssignAdd", "OperatorAssignSubtract", "OperatorAdd", "Log", "Undefined"}

\* The functions of the pool that have bytecode.
Functions == {RootFunction("main"), RootFunction("callee")} \cup (Classes \X MethodNames)

\* A pool whose bytecode is left open, without class hierarchy.
OpenPool(locals) ==
  [base |-> [c \in Classes |-> 0], decl |-> [c \in Classes |-> {}], final |-> {}, static |-> {},
   fields |-> [c \in Classes |-> "I32"], locals |-> locals, ints |-> MaxInt, bytes |-> 1, free |-> TRUE,
   code |-> [f \in Functions |-> <<>>]]

\* VM::new(pool) followed by native::register_natives: empty stacks, an empty
\* arena, no vtable computed yet.
NewVM(p) ==
  /\ pool = p
  /\ natives = [n \in NativeNames |-> RegisteredNative(n)]
  /\ vtables = [c \in Classes |-> NoVtable]
  /\ debt = 0
  /\ heap = <<>>
  /\ stack = <<>>
  /\ frames = <<>>
  /\ contexts = <<>>
  /\ kont = <<>>
  /\ pc = "Host"
  /\ status = "ok"
  /\ last = "new"

(***************************************************************************)
(* Calls: the host calls main, callee or a native; the bytecode is made of *)
(* constants, local reads, calls with provided or omitted arguments and    *)
(* returns.                                                                *)
(***************************************************************************)
Init == NewVM(OpenPool(<<"x">>))

\* Function::return_type is set: callee and the arithmetic natives return an
\* Int32, main, Log and the methods return nothing.
ReturnsValue(f) ==
  f[1] = 0 /\ f[2] \in {"callee", "OperatorAdd", "OperatorAssignAdd", "OperatorAssignSubtract"}

\* The function whose code is running.
CurrentFunction == kont[CallIndex(kont)].fun

\* The bytecode the compiler emits is well typed: a call in operand position
\* is a call of a function that returns a value, and a function that
\* returns a value ends in Return with an expression.
CallTyped(f) == pc = "Fetch" /\ (IF Top(kont).op = "Call" THEN TRUE ELSE ReturnsValue(f))

ReturnTyped(value) == pc = "Fetch" /\ CallIndex(kont) # 0 /\ ReturnsValue(CurrentFunction) = value

\* A call may start here: the nesting of calls is bounded.
Shallow == Len(kont) < MaxNest

CallTargets ==
  {RootFunction("main"), RootFunction("callee"), RootFunction("OperatorAdd"), RootFunction("Log")}

Next ==
  \/ \E f \in {RootFunction("main"), RootFunction("OperatorAdd")}, n \in {0, 2} :
       HostCall("call_void", f, [i \in 1..n |-> I32(1)])
  \/ HostCall("call_with_callback", RootFunction("main"), <<>>)
  \/ HostReturn
  \/ \E f \in CallTargets : Shallow /\ CallTyped(f) /\ InvokeStatic(f)
  \/ ExecNop
  \/ ExecConst(I32(1))
  \/ ExecLocal("x")
  \/ CallNativeFunction
  \/ CallFunction
  \/ ReturnTyped(TRUE) /\ Return
  \/ ReturnValue
  \/ ReturnTyped(FALSE) /\ ReturnVoid
  \/ CallExit

Spec == Init /\ [][Next]_vars

ClassPools ==
  LET all == {[OpenPool(<<"o">>) EXCEPT !.base = b, !.decl = d, !.final = fin] :
                b \in {f \in [Classes -> 0..NumClasses] : \A c \in Classes : f[c] < c},
                d \in [Classes -> {{}, {"Name"}}],
                fin \in {{}, {<<2, "Name">>}}}
  IN {p \in all : \A m \in p.final : m[2] \in p.decl[m[1]]}

InitClass == \E p \in ClassPools : NewVM(p)

\* Where the instruction about to be fetched stands in well-formed bytecode:
\* a statement of a function body, the member expression of a Context, or
\* an operand that yields a value.
AtStatement == pc = "Fetch" /\ Top(kont).op = "Call"

AtMember == pc = "Fetch" /\ Top(kont).op = "Context" /\ Top(kont).ph = 1

AtOperand == pc = "Fetch" /\ ~AtStatement /\ ~AtMember

\* The host makes its first call on the new VM.
FirstCall == last = "new"

NextClass ==
  \/ FirstCall /\ HostCall("call_void", RootFunction("main"), <<>>)
  \/ HostReturn
  \/ \E c \in Classes : AtOperand /\ ExecNew(c)
  \/ AtOperand /\ ExecConst(ObjNull)
  \/ AtOperand /\ ExecLocal("o")
  \/ AtStatement /\ Assign("o")
  \/ AssignEnd
  \/ AtStatement /\ Context
  \/ ContextEnter
  \/ ContextEnd
  \/ AtMember /\ InvokeVirtual("Name")
  \/ CallFunction
  \/ ReturnTyped(FALSE) /\ ReturnVoid
  \/ CallExit
  \/ \E c \in 0..NumClasses : AtOperand /\ ExecDynamicCast(c)
  \/ DynamicCastEnd

SpecClass == InitClass /\ [][NextClass]_vars

\* The classes of c's inheritance chain that declare a method called name
\* that is neither final nor static.
Overriders(p, c, name) ==
  {d \in Classes : /\ \E i \in DOMAIN Bases(p, c) : Bases(p, c)[i] = d
                   /\ name \in p.decl[d]
                   /\ <<d, name>> \notin p.final \cup p.static}

\* The most-derived of them: the first on the walk from c to its root.
MostDerived(p, c, name) ==
  LET chain == Bases(p, c)
      first == CHOOSE i \in DOMAIN chain :
                 /\ chain[i] \in Overriders(p, c, name)
                 /\ \A j \in 1..(i - 1) : chain[j] \notin Overriders(p, c, name)
  IN chain[first]

\* C2: when the chain of a class declares a non-final, non-static method of
\* one name in more than one class, the vtable computed for the class maps
\* the name to the declaration of the most-derived class, and that is the
\* function InvokeVirtual hands to call_static for an instance of the class.
C2_MostDerivedOverride ==
  /\ \A c \in Classes : \A name \in MethodNames :
       (vtables[c].some /\ Cardinality(Overriders(pool, c, name)) > 1)
         => /\ name \in DOMAIN vtables[c].map
            /\ vtables[c].map[name] = <<MostDerived(pool, c, name), name>>
  /\ \A i \in DOMAIN kont :
       (/\ kont[i].op = "InvokeStatic"
        /\ kont[i].loc \in MethodNames
        /\ Cardinality(Overriders(pool, kont[i].idx, kont[i].loc)) > 1)
         => kont[i].fun = <<MostDerived(pool, kont[i].idx, kont[i].loc), kont[i].loc>>

\* C3: for a non-null object o, DynamicCast(C) leaves Obj(Null) or o itself,
\* and it leaves o only when o's class is C or a class derived from C.
C3_CastToClassOrDerived ==
  [][(/\ Ready("DynamicCast")
      /\ last' = "DynamicCast"
      /\ status' = "ok")
     => LET o == Unpinned(heap, Peek(stack, 1))
            res == Peek(stack', 1)
            C == Top(kont).idx
        IN \/ res = ObjNull
           \/ /\ res = o
              /\ \E i \in DOMAIN Bases(pool, heap[o.v].tag) : Bases(pool, heap[o.v].tag)[i] = C]_vars

\* C4: is_instance_of(C, C) is true for every class C, and
\* is_instance_of(C, undefined) is false, returned as a value.
C4_InstanceOfSelfAndUndefined ==
  \A c \in Classes :
    /\ IsInstanceOf(pool, c, c) = [panic |-> FALSE, val |-> TRUE]
    /\ IsInstanceOf(pool, c, 0) = [panic |-> FALSE, val |-> FALSE]

(***************************************************************************)
(* Out parameters: main has an Int32 local, assigns it and applies the     *)
(* out-parameter natives to it.                                            *)
(***************************************************************************)
InitNative == NewVM([OpenPool(<<"x">>) EXCEPT !.ints = MaxSum])

OutNatives == {RootFunction("OperatorAssignAdd"), RootFunction("OperatorAssignSubtract")}

\* An operand that is a place or a reference to one: a local may stand
\* anywhere but under Deref, whose operand is a reference.
AtPlace == AtOperand /\ Top(kont).op # "Deref"

\* An operand that need not be a place: not the argument of an out
\* parameter and not the operand of AsRef, which the compiler emits for
\* locals, parameters and fields only.
AtValue == AtPlace /\ ~FetchPin /\ Top(kont).op # "AsRef"

\* The operand of Deref: a reference.
AtReference == pc = "Fetch" /\ Top(kont).op = "Deref"

\* An expression (a call, a dereference) stands as a statement or as a value.
AtCall == pc = "Fetch" /\ (IF Top(kont).op = "Call" THEN TRUE ELSE AtValue)

NextNative ==
  \/ FirstCall /\ HostCall("call_void", RootFunction("main"), <<>>)
  \/ HostReturn
  \/ \E n \in {5, 7} : AtValue /\ ExecConst(I32(n))
  \/ AtPlace /\ ExecLocal("x")
  \/ AtStatement /\ Assign("x")
  \/ AssignEnd
  \/ \E f \in OutNatives : Shallow /\ AtCall /\ InvokeStatic(f)
  \/ CallNativeFunction
  \/ CallFunction
  \/ ReturnTyped(FALSE) /\ ReturnVoid
  \/ CallExit

SpecNative == InitNative /\ [][NextNative]_vars

\* C5: when call_native runs an out-pair thunk of arity n and the first of
\* the n argument slots is a Pinned cell c (the arguments being Int32s), the
\* thunk pops the n values, the cell c then holds f(content of c, second
\* argument) with the arguments in declared order, and the same number is
\* pushed as the call's value; nothing else in the heap changes.
C5_OutThunk ==
  [][(/\ Ready("InvokeStatic")
      /\ Top(kont).fun \in OutNatives
      /\ last' = "CallNative"
      /\ Len(stack) >= 2
      /\ IsPinned(Peek(stack, 2))
      /\ Unpinned(heap, Peek(stack, 2)).t = "I32"
      /\ Unpinned(heap, Peek(stack, 1)).t = "I32")
     => LET c == Peek(stack, 2).v
            x == heap[c].m[1].v
            y == Unpinned(heap, Peek(stack, 1)).v
            res == IF Top(kont).fun[2] = "OperatorAssignAdd" THEN x + y ELSE x - y
        IN /\ status' = "ok"
           /\ stack' = Append(Drop(stack, 2), I32(res))
           /\ heap' = [heap EXCEPT ![c].m = <<I32(res)>>]]_vars

\* OperatorAssignAdd was applied to x = 5 (pinned) and 7, or to 7 and 5: the
\* cell of x holds 12 and 12 is the call's value.
C5_Witness ==
  /\ last = "CallNative"
  /\ status = "ok"
  /\ stack # <<>>
  /\ Top(stack) = I32(12)
  /\ frames # <<>>
  /\ IsPinned(frames[1]["x"])
  /\ heap[frames[1]["x"].v].m = <<I32(12)>>

(***************************************************************************)
(* References: main has two Int32 locals, applies an out-parameter native  *)
(* to them, assigns them and takes and drops references (AsRef, Deref).    *)
(***************************************************************************)
InitPin == NewVM([OpenPool(<<"x", "y">>) EXCEPT !.ints = MaxSum])

NextPin ==
  \/ FirstCall /\ HostCall("call_void", RootFunction("main"), <<>>)
  \/ HostReturn
  \/ AtValue /\ ExecConst(I32(5))
  \/ \E idx \in {"x", "y"} : AtPlace /\ ExecLocal(idx)
  \/ \E idx \in {"x", "y"} : AtStatement /\ Assign(idx)
  \/ AssignEnd
  \/ AtCall /\ InvokeStatic(RootFunction("OperatorAssignAdd"))
  \/ CallNativeFunction
  \/ CallFunction
  \/ AtReference /\ ExecAsRef
  \/ AsRefEnd
  \/ AtCall /\ ExecDeref
  \/ DerefEnd
  \/ ReturnTyped(FALSE) /\ ReturnVoid
  \/ CallExit

SpecPin == InitPin /\ [][NextPin]_vars

\* Every value held in an operand stack slot, a local or parameter, a field,
\* an array element or a Pinned cell.
AllValues ==
  {stack[i] : i \in DOMAIN stack}
    \cup UNION {{frames[i][idx] : idx \in DOMAIN frames[i]} : i \in DOMAIN frames}
    \cup UNION {{heap[a].m[k] : k \in DOMAIN heap[a].m} : a \in DOMAIN heap}

\* C10: Pinned never nests: the unpinned form of every value held anywhere
\* is not itself Pinned.
C10_PinnedNeverNests == \A val \in AllValues : ~IsPinned(Unpinned(heap, val))

(***************************************************************************)
(* The Counter scenario: class 1 is Counter, with the Int32 field value    *)
(* (field 1) and the method Inc() { this.value += 1 }; main creates a      *)
(* Counter, calls Inc on it and returns counter.value.  The bytecode is    *)
(* given: the pool holds main's and Inc's code.                            *)
(***************************************************************************)
\* counter.Inc(): Context, the receiver, the virtual call.
CallInc == <<Ins("Context", "", 0), Ins("Local", "o", 0), Ins("InvokeVirtual", "Inc", 0)>>

RECURSIVE Repeat(_, _)
Repeat(code, n) == IF n = 0 THEN <<>> ELSE code \o Repeat(code, n - 1)

\* main: let o = new Counter(); o.Inc(); ... ; return o.value;
CounterMain(n) ==
  <<Ins("Assign", "", 0), Ins("Local", "o", 0), Ins("New", "", 1)>>
    \o Repeat(CallInc, n)
    \o <<Ins("Return", "", 0), Ins("Context", "", 0), Ins("Local", "o", 0), Ins("ObjectField", "", 1)>>

\* Inc: OperatorAssignAdd(this.value, 1).  The member access this.value is
\* Context, This, ObjectField(value); in the bare form the field is read
\* from the context the caller pushed.  The body ends at the end of the
\* code or in Return, Nop.
IncCode(bare, ret) ==
  <<[Ins("InvokeStatic", "", 0) EXCEPT !.fun = RootFunction("OperatorAssignAdd")]>>
    \o (IF bare THEN <<>> ELSE <<Ins("Context", "", 0), Ins("This", "", 0)>>)
    \o <<Ins("ObjectField", "", 1), Ins("Const", "I32", 1), Ins("ParamEnd", "", 0)>>
    \o (IF ret THEN <<Ins("Return", "", 0), Ins("Nop", "", 0)>> ELSE <<>>)

CounterPool(n, bare, ret) ==
  [OpenPool(<<"o">>) EXCEPT
     !.decl = [c \in Classes |-> IF c = 1 THEN {"Inc"} ELSE {}],
     !.ints = MaxSum,
     !.free = FALSE,
     !.code = [f \in Functions |->
                 CASE f = RootFunction("main") -> CounterMain(n)
                   [] f = <<1, "Inc">> -> IncCode(bare, ret)
                   [] OTHER -> <<>>]]

InitCounter == \E n \in 1..Calls, bare \in BOOLEAN, ret \in BOOLEAN : NewVM(CounterPool(n, bare, ret))

NextCounter ==
  \/ FirstCall /\ HostCall("call_with_callback", RootFunction("main"), <<>>)
  \/ HostReturn
  \/ ExecNew(1)
  \/ ExecConst(I32(1))
  \/ ExecLocal("o")
  \/ ExecThis
  \/ ExecObjectField(1)
  \/ Assign("o")
  \/ AssignEnd
  \/ Context
  \/ ContextEnter
  \/ ContextEnd
  \/ InvokeVirtual("Inc")
  \/ InvokeStatic(RootFunction("OperatorAssignAdd"))
  \/ CallNativeFunction
  \/ CallFunction
  \/ Return
  \/ ReturnValue
  \/ ReturnVoid
  \/ CodeEnd
  \/ CallExit

SpecCounter == InitCounter /\ [][NextCounter]_vars

\* The number of calls of Inc in main's code.
IncCalls ==
  Cardinality({i \in DOMAIN pool.code[RootFunction("main")] :
                 pool.code[RootFunction("main")][i].op = "InvokeVirtual"})

\* C6: with Inc called three times on a new Counter, no error is raised and
\* when main has returned the value it returned, counter.value, is 3.
C6_CounterCountsToThree ==
  IncCalls = Calls
    => /\ status = "ok"
       /\ pc = "Callback" =>
            /\ stack # <<>>
            /\ Unpinned(heap, Top(stack)) = I32(Calls)
            /\ Unpinned(heap, heap[1].m[1]) = I32(Calls)

(***************************************************************************)
(* Arrays: main has an array local arr and applies the array instructions  *)
(* to it.                                                                  *)
(***************************************************************************)
ArrayPool(locals) == [OpenPool(locals) EXCEPT !.fields[1] = "Array"]

InitArray == NewVM(ArrayPool(<<"arr">>))

HasLocal(idx) == \E i \in DOMAIN pool.locals : pool.locals[i] = idx

\* The bytecode is well typed.  An array is expected: the first operand of
\* an array instruction, the value assigned to an array local or field.
AtArray ==
  /\ pc = "Fetch"
  /\ LET fr == Top(kont)
     IN CASE fr.op = "AssignLocal" -> fr.loc \in {"arr", "arr2"}
          [] fr.op = "AssignContext" -> fr.ph = 1
          [] fr.op \in {"ArrayClear", "ArraySize", "ArrayResize", "ArrayPush", "ArrayPop",
                        "ArrayLast", "ArrayElement", "AssignArrayElement"} -> fr.ph = 0
          [] OTHER -> FALSE

\* An Int32 is expected: a size, an index or an element.
AtElement ==
  /\ pc = "Fetch"
  /\ Top(kont).op \in {"ArrayResize", "ArrayPush", "ArrayElement", "AssignArrayElement"}
  /\ Top(kont).ph >= 1

\* An object is expected: the receiver of a member access, the value
\* assigned to o.
AtNew == pc = "Fetch" /\ Top(kont).op = "AssignLocal" /\ Top(kont).loc = "o"

AtObject ==
  /\ pc = "Fetch"
  /\ IF Top(kont).op \in {"Context", "AssignContext"} THEN Top(kont).ph = 0 ELSE AtNew

NextArray ==
  \/ FirstCall /\ HostCall("call_void", RootFunction("main"), <<>>)
  \/ HostReturn
  \/ CallFunction
  \/ ReturnTyped(FALSE) /\ ReturnVoid
  \/ CallExit
  \/ \E n \in {1, 2} : AtElement /\ ExecConst(I32(n))
  \/ AtArray /\ ExecLocal("arr")
  \/ AtStatement /\ AssignElement
  \/ AssignElementEnd
  \/ \E op \in {"ArrayClear", "ArrayResize", "ArrayPush"} : AtStatement /\ ExecArray(op)
  \/ \E op \in {"ArraySize", "ArrayPop", "ArrayLast", "ArrayElement"} : AtElement /\ ExecArray(op)
  \/ ArrayClearEnd
  \/ ArraySizeEnd
  \/ ArrayResizeEnd
  \/ ArrayPushEnd
  \/ ArrayPopEnd
  \/ ArrayLastEnd
  \/ ArrayElementEnd

SpecArray == InitArray /\ [][NextArray]_vars

\* What ArraySize and ArrayLast yield when applied to the array value arr
\* in the root r.
SizeOf(r, arr) == Top(ArraySize(PushVal(r, arr)).stack)

LastOf(r, arr) == Top(ArrayLast(PushVal(r, arr)).stack)

\* The instruction op has evaluated its operands and now runs its block
\* without failing.
Runs(op) == Ready(op) /\ last' = op /\ status' = "ok"

\* C7: after ArrayResize(n) ArraySize yields n; after ArrayPush(v) ArraySize
\* yields the previous size plus 1 and ArrayLast yields v; after ArrayPop
\* ArraySize yields the previous size minus 1 and the value it left on the
\* stack is the former last element.
C7_ArrayRelations ==
  [][/\ Runs("ArrayResize")
          => SizeOf(Root', Peek(stack, 2)) = I32(Unpinned(heap, Peek(stack, 1)).v)
     /\ Runs("ArrayPush")
          => /\ SizeOf(Root', Peek(stack, 2)).v = SizeOf(Root, Peek(stack, 2)).v + 1
             /\ LastOf(Root', Peek(stack, 2)) = Peek(stack, 1)
     /\ Runs("ArrayPop")
          => /\ SizeOf(Root', Peek(stack, 1)).v = SizeOf(Root, Peek(stack, 1)).v - 1
             /\ Top(stack') = LastOf(Root, Peek(stack, 1))]_vars

\* An element was pushed on an array that held another one, and popped.
C7_Witness ==
  /\ last = "ArrayPop"
  /\ status = "ok"
  /\ stack # <<>>
  /\ Top(stack) = I32(2)
  /\ \E a \in DOMAIN heap : heap[a].k = "array" /\ heap[a].m = <<I32(1)>>

(***************************************************************************)
(* Shared arrays: main has an array local arr and either a second array    *)
(* local arr2 or a local o for an instance of class 1, whose field is an   *)
(* array.  The statements assign the locals and the field and mutate the   *)
(* arrays through them.                                                    *)
(***************************************************************************)
InitShare == \E locals \in {<<"arr", "arr2">>, <<"arr", "o">>} : NewVM(ArrayPool(locals))

NextShare ==
  \/ FirstCall /\ HostCall("call_void", RootFunction("main"), <<>>)
  \/ HostReturn
  \/ CallFunction
  \/ ReturnTyped(FALSE) /\ ReturnVoid
  \/ CallExit
  \/ \E n \in {1, 2} : AtElement /\ ExecConst(I32(n))
  \/ \E idx \in {"arr", "arr2"} : HasLocal(idx) /\ AtArray /\ ExecLocal(idx)
  \/ HasLocal("o") /\ AtObject /\ ExecLocal("o")
  \/ AtNew /\ ExecNew(1)
  \/ \E idx \in {"arr2", "o"} : HasLocal(idx) /\ AtStatement /\ Assign(idx)
  \/ AssignEnd
  \/ HasLocal("o") /\ AtStatement /\ AssignContext
  \/ AssignContextTarget(1)
  \/ AssignContextEnd
  \/ HasLocal("o") /\ AtArray /\ Context
  \/ ContextEnter
  \/ AtMember /\ ExecObjectField(1)
  \/ ContextEnd
  \/ AtStatement /\ AssignElement
  \/ AssignElementEnd
  \/ \E op \in {"ArrayClear", "ArrayResize", "ArrayPush"} : AtStatement /\ ExecArray(op)
  \/ AtElement /\ ExecArray("ArrayPop")
  \/ ArrayClearEnd
  \/ ArrayResizeEnd
  \/ ArrayPushEnd
  \/ ArrayPopEnd

SpecShare == InitShare /\ [][NextShare]_vars

\* The instructions that mutate an array, with the number of operands their
\* blocks pop; the array is the deepest of them.
Mutators ==
  [ArrayClear |-> 1, ArrayPop |-> 1, ArrayResize |-> 2, ArrayPush |-> 2, AssignArrayElement |-> 3]

\* The array the block about to run mutates.
Mutated == AsArray(heap, Peek(stack, Mutators[Top(kont).op]))

\* The contents the mutation leaves in that array.
Expected ==
  LET op == Top(kont).op
      old == heap[Mutated].m
  IN CASE op = "ArrayClear" -> <<>>
       [] op = "ArrayPop" -> SubSeq(old, 1, Len(old) - 1)
       [] op = "ArrayResize" -> Resize(old, Unpinned(heap, Peek(stack, 1)).v)
       [] op = "ArrayPush" -> Append(old, Peek(stack, 1))
       [] OTHER -> [old EXCEPT ![Peek(stack, 2).v + 1] = Peek(stack, 1)]

\* The contents of the array that a read of the local idx, of the field fd
\* of the instance at c, or of the operand stack slot i yields in root r.
SeenThroughLocal(r, idx) ==
  LET rd == ReadLocal(r, idx, FALSE) IN rd.heap[AsArray(rd.heap, Top(rd.stack))].m

SeenThroughField(r, c, fd) ==
  LET rd == ReadObjectField([r EXCEPT !.contexts = <<ObjInstance(c)>>], fd, FALSE)
  IN rd.heap[AsArray(rd.heap, Top(rd.stack))].m

SeenThroughSlot(r, i) == r.heap[AsArray(r.heap, r.stack[i])].m

Instances == {c \in DOMAIN heap : heap[c].k = "instance"}

\* The value a read has just pushed is an array that a local of the running
\* function or a field of an instance holds: the read shares.
ReadShares ==
  LET val == Top(stack')
  IN \/ \E idx \in DOMAIN Top(frames') : Top(frames')[idx] = val
     \/ \E c \in Instances : \E fd \in DOMAIN heap'[c].m : heap'[c].m[fd] = val

\* C8: arrays are shared by reference.  A read of a local or of a field
\* that yields an array yields the very array the place holds, and an
\* assignment stores the very array it was given; after a mutation (clear,
\* pop, resize, push, element assignment) made through one holder, a read
\* through every local, every field and every operand stack slot that held
\* the same array yields the mutated contents.
C8_ArraysShared ==
  [][/\ (/\ pc = "Fetch"
         /\ last' \in {"Local", "ObjectField"}
         /\ status' = "ok"
         /\ Top(stack').t = "Array")
          => ReadShares
     /\ (/\ Runs("AssignLocal")
         /\ Top(stack).t = "Array")
          => Top(frames')[Top(kont).loc] = Top(stack)
     /\ (/\ Runs("AssignContext")
         /\ Top(stack).t = "Array")
          => heap'[Peek(stack, 2).v].m[Top(kont).idx] = Top(stack)
     /\ (/\ pc = "Ready"
         /\ Top(kont).op \in DOMAIN Mutators
         /\ last' = Top(kont).op
         /\ status' = "ok")
          => /\ \A idx \in DOMAIN Top(frames) :
                  AsArray(heap, Top(frames)[idx]) = Mutated
                    => SeenThroughLocal(Root', idx) = Expected
             /\ \A c \in Instances : \A fd \in DOMAIN heap[c].m :
                  AsArray(heap, heap[c].m[fd]) = Mutated
                    => SeenThroughField(Root', c, fd) = Expected
             /\ \A i \in 1..(Len(stack) - Mutators[Top(kont).op]) :
                  AsArray(heap, stack[i]) = Mutated
                    => SeenThroughSlot(Root', i) = Expected]_vars

\* Two locals hold the same array and an element was pushed on it.
C8_Witness ==
  /\ last = "ArrayPush"
  /\ status = "ok"
  /\ frames # <<>>
  /\ "arr2" \in DOMAIN frames[1]
  /\ frames[1]["arr"] = frames[1]["arr2"]
  /\ heap[frames[1]["arr"].v].m # <<>>

\* A local and a field hold the same array and an element was pushed on it.
C8_FieldWitness ==
  /\ last = "ArrayPush"
  /\ status = "ok"
  /\ frames # <<>>
  /\ \E c \in Instances : heap[c].m[1] = frames[1]["arr"]
  /\ heap[frames[1]["arr"].v].m # <<>>

(***************************************************************************)
(* Structs: main has a struct local s, or a local o for an instance of     *)
(* class 1 whose field is a struct.  The statements read and assign the    *)
(* struct's fields and switch on the struct and on its fields.             *)
(***************************************************************************)
StructPool(locals) == [OpenPool(locals) EXCEPT !.fields[1] = "Struct"]

InitStruct == \E locals \in {<<"s">>, <<"o">>} : NewVM(StructPool(locals))

\* A struct is expected: the operand of a field access, the target of a
\* field assignment, the scrutinee of a switch.
AtStruct ==
  /\ pc = "Fetch"
  /\ Top(kont).op \in {"StructField", "AssignStructField", "Switch"}
  /\ Top(kont).ph = 0

\* An Int32 is expected: the value assigned to a field, the scrutinee and
\* the labels of a switch.
AtScalar ==
  /\ pc = "Fetch"
  /\ IF Top(kont).op = "AssignStructField" THEN Top(kont).ph = 1 ELSE Top(kont).op = "Switch"

NextStruct ==
  \/ FirstCall /\ HostCall("call_void", RootFunction("main"), <<>>)
  \/ HostReturn
  \/ CallFunction
  \/ ReturnTyped(FALSE) /\ ReturnVoid
  \/ CallExit
  \/ \E n \in {1, 2} : AtScalar /\ ExecConst(I32(n))
  \/ HasLocal("s") /\ AtStruct /\ ExecLocal("s")
  \/ HasLocal("o") /\ AtObject /\ ExecLocal("o")
  \/ AtNew /\ ExecNew(1)
  \/ HasLocal("o") /\ AtStatement /\ Assign("o")
  \/ AssignEnd
  \/ HasLocal("o") /\ AtStruct /\ Context
  \/ ContextEnter
  \/ AtMember /\ ExecObjectField(1)
  \/ ContextEnd
  \/ \E fd \in {StructFields[i] : i \in DOMAIN StructFields} : AtScalar /\ StructField(fd)
  \/ StructFieldEnd
  \/ \E fd \in {StructFields[i] : i \in DOMAIN StructFields} : AtStatement /\ AssignStruct(fd)
  \/ AssignStructEnd
  \/ AtStatement /\ Switch
  \/ SwitchLabel
  \/ SwitchCompare
  \/ SwitchEnd

SpecStruct == InitStruct /\ [][NextStruct]_vars

\* A value is being duplicated onto the operand stack: the read of a local
\* or of an object field, the read of a struct field, the copy of a
\* switch's scrutinee.
Duplicates ==
  /\ status' = "ok"
  /\ \/ pc = "Fetch" /\ last' \in {"Local", "ObjectField"}
     \/ Ready("StructField") /\ last' = "StructField"
     \/ Ready("Switch") /\ last' = "SwitchLabel"

\* The value that is duplicated, when the duplicate is val.
Shares(val) ==
  CASE last' = "StructField" ->
         heap'[Unpinned(heap, Top(stack)).v].m[Top(kont).idx] = val
    [] last' = "SwitchLabel" -> stack[Top(kont).sp + 1] = val
    [] OTHER -> ReadShares

\* C9: every duplication of a BoxedStruct onto the operand stack pushes a
\* struct whose field map is freshly allocated (no cell the heap had
\* before), with the fields of the original; a value of any other variant
\* is pushed as it is held.
C9_StructDuplication ==
  [][Duplicates
       => LET val == Top(stack')
          IN IF val.t = "BoxedStruct"
             THEN /\ val.v \notin DOMAIN heap
                  /\ \E a \in DOMAIN heap : heap[a].k = "struct" /\ heap'[val.v].m = heap[a].m
             ELSE Shares(val)]_vars

(***************************************************************************)
(* Conversions: the host converts a value with into_vm, keeps it on the    *)
(* operand stack (as the args! macro and call_void do), may wrap it in a   *)
(* Pinned cell, and reads it back with from_vm as one of the host types.   *)
(***************************************************************************)
SignedTypes == {"i8", "i16", "i32", "i64"}

UnsignedTypes == {"u8", "u16", "u32", "u64"}

FloatTypes == {"f32", "f64"}

HostTypes == SignedTypes \cup UnsignedTypes \cup FloatTypes \cup {"bool", "String"}

\* The host values of each type.
HostValues ==
  {HostNum(ty, n) : ty \in SignedTypes, n \in (0 - MaxInt)..MaxInt}
    \cup {HostNum(ty, n) : ty \in UnsignedTypes, n \in 0..MaxInt}
    \cup {HostNum(ty, n) : ty \in FloatTypes, n \in (0 - MaxInt)..NaN}
    \cup {HostBool(b) : b \in BOOLEAN}
    \cup {HostString(text) : text \in {"", "a", "ab"}}

\* The host's side of a conversion: the value it started from, the type it
\* reads back (loc) and the Result of from_vm.
HostFrame(arg) == [arg |-> arg, res |-> Err(arg.ty, "")] @@ KFrame("Host")

InitConvert ==
  /\ pool = OpenPool(<<>>)
  /\ natives = [n \in NativeNames |-> RegisteredNative(n)]
  /\ vtables = [c \in Classes |-> NoVtable]
  /\ debt = 0
  /\ heap = <<>>
  /\ stack = <<>>
  /\ frames = <<>>
  /\ contexts = <<>>
  /\ \E arg \in HostValues : kont = <<HostFrame(arg)>>
  /\ pc = "Host"
  /\ status = "ok"
  /\ last = "new"

\* x.into_vm(mc), pushed on the operand stack.
HostIntoVM ==
  /\ pc = "Host"
  /\ last = "new"
  /\ LET c == IntoVM(heap, Top(kont).arg)
     IN Mid("into_vm", [Root EXCEPT !.heap = c.heap, !.stack = Append(stack, c.val)], kont, "Host")

\* The converted value is wrapped in a Pinned cell.
HostPin ==
  /\ pc = "Host"
  /\ last = "into_vm"
  /\ Mid("pin", AsRef(Root), kont, "Host")

\* T::from_vm(root.pop(), pool) for the host type ty.
HostFromVM(ty) ==
  /\ pc = "Host"
  /\ last \in {"into_vm", "pin"}
  /\ Mid("from_vm", [Root EXCEPT !.stack = Drop(stack, 1)],
         <<[Top(kont) EXCEPT !.loc = ty, !.res = FromVMAs(heap, Peek(stack, 1), ty)]>>, "Host")

NextConvert ==
  \/ HostIntoVM
  \/ HostPin
  \/ \E ty \in HostTypes : HostFromVM(ty)

SpecConvert == InitConvert /\ [][NextConvert]_vars

\* C11: for every host value x of a primitive numeric type, bool or String,
\* from_vm(into_vm(x)) read back as x's own type is Ok(x), also when the
\* converted value was wrapped in a Pinned cell before from_vm.
C11_RoundTrip ==
  (last = "from_vm" /\ Top(kont).loc = Top(kont).arg.ty)
    => Top(kont).res = Ok(Top(kont).arg)

\* The String "ab" came back from a Pinned cell holding its Str.
C11_Witness ==
  /\ last = "from_vm"
  /\ Top(kont).arg = HostString("ab")
  /\ Top(kont).res = Ok(HostString("ab"))
  /\ Len(heap) = 2
  /\ heap[2] = PinCell(Str(1))

(***************************************************************************)
(* Equality: two values, plain or behind Pinned cells, are on the operand  *)
(* stack and Value::equals is applied to them (as Equals does, by binop).  *)
(***************************************************************************)
\* The cells the compared values may point to.
EqualsHeaps ==
  {<<>>, <<StrCell("a")>>, <<StrCell("a"), StrCell("a")>>, <<StrCell("a"), StrCell("b")>>,
   <<ArrayCell(<<>>)>>, <<ArrayCell(<<>>), ArrayCell(<<>>)>>,
   <<StructCell(EmptyMap)>>, <<InstanceCell(1, EmptyMap)>>}

\* The values that point to the cell at address r.
Pointers(h, r) ==
  CASE h[r].k = "str" -> {Str(r)}
    [] h[r].k = "array" -> {ArrayVal(r)}
    [] h[r].k = "struct" -> {BoxedStruct(r)}
    [] OTHER -> {ObjInstance(r)}

\* The unpinned values over the heap h.
PlainValues(h) ==
  {Num(t, n) : t \in IntVariants, n \in 0..1}
    \cup {Num(t, n) : t \in FloatVariants, n \in {0, NaN}}
    \cup {Bool(b) : b \in BOOLEAN}
    \cup {EnumVal(n) : n \in 0..1}
    \cup {InternStr(kind, index) : kind \in StringTypes, index \in 0..1}
    \cup {ObjNull, PackedStruct}
    \cup UNION {Pointers(h, r) : r \in DOMAIN h}

\* The two values the host compares.
EqualsFrame(lhs, rhs) == [arg |-> <<lhs, rhs>>] @@ KFrame("Host")

\* The operands: each plain or wrapped in a Pinned cell of its own.
InitEquals ==
  /\ pool = OpenPool(<<>>)
  /\ natives = [n \in NativeNames |-> RegisteredNative(n)]
  /\ vtables = [c \in Classes |-> NoVtable]
  /\ debt = 0
  /\ frames = <<>>
  /\ contexts = <<>>
  /\ pc = "Host"
  /\ status = "ok"
  /\ last = "new"
  /\ \E h \in EqualsHeaps : \E a \in PlainValues(h), b \in PlainValues(h) :
       \E pa \in BOOLEAN, pb \in BOOLEAN :
         LET ha == IF pa THEN Alloc(h, PinCell(a)) ELSE h
             lhs == IF pa THEN Pinned(NewRef(h)) ELSE a
             hb == IF pb THEN Alloc(ha, PinCell(b)) ELSE ha
             rhs == IF pb THEN Pinned(NewRef(ha)) ELSE b
         IN /\ Len(hb) <= MaxHeap
            /\ heap = hb
            /\ stack = <<lhs, rhs>>
            /\ kont = <<EqualsFrame(lhs, rhs)>>

\* binop(|lhs, rhs, _| Value::Bool(lhs.equals(&rhs)))
HostEquals ==
  /\ pc = "Host"
  /\ last = "new"
  /\ Mid("equals", BinopEquals(Root), kont, "Host")

NextEquals == HostEquals

SpecEquals == InitEquals /\ [][NextEquals]_vars

\* The variants Value::equals is defined on.
EqualsVariants == IntVariants \cup FloatVariants \cup {"Bool", "EnumVal", "Str", "InternStr"}

\* The payloads of two values of one of these variants are equal: numbers
\* by ==, strings by their text, interned strings by kind and index.
PayloadsEqual(a, b) ==
  CASE a.t = "Str" -> heap[a.v].text = heap[b.v].text
    [] a.t = "InternStr" -> a.kind = b.kind /\ a.v = b.v
    [] a.t \in FloatVariants -> a.v = b.v /\ a.v # NaN
    [] OTHER -> a.v = b.v

\* C12: equals(a, b) is true iff, after unpinning both sides, a and b are of
\* the same variant among the numerics, Bool, EnumVal, Str and InternStr and
\* their payloads are equal; it is false when either side is an Obj, Array,
\* BoxedStruct or PackedStruct, also for one and the same reference, and
\* false for two InternStr of different kinds.
C12_Equals ==
  last = "equals" =>
    LET a == Unpinned(heap, Top(kont).arg[1])
        b == Unpinned(heap, Top(kont).arg[2])
        res == Top(stack) = Bool(TRUE)
    IN /\ status = "ok"
       /\ Len(stack) = 1
       /\ res <=> (a.t = b.t /\ a.t \in EqualsVariants /\ PayloadsEqual(a, b))
       /\ (\E x \in {a, b} : x.t \in {"Obj", "Array", "BoxedStruct", "PackedStruct"}) => ~res
       /\ (IF a.t = "InternStr" /\ b.t = "InternStr" THEN a.kind # b.kind ELSE FALSE) => ~res

\* Two Str in different cells with the same text, the left one behind a
\* Pinned cell, were found equal.
C12_Witness ==
  /\ last = "equals"
  /\ Top(kont).arg = <<Pinned(3), Str(2)>>
  /\ heap = <<StrCell("a"), StrCell("a"), PinCell(Str(1))>>
  /\ stack = <<Bool(TRUE)>>

\* One array compared with itself was found different.
C12_SameReference ==
  /\ last = "equals"
  /\ Top(kont).arg = <<ArrayVal(1), ArrayVal(1)>>
  /\ stack = <<Bool(FALSE)>>

(***************************************************************************)
(* Defaults: the default value of a resolved type is made (as for a local  *)
(* or a field) and has_type is asked about it.                             *)
(***************************************************************************)
\* enum TypeId, the types that carry nothing.
PlainTypes ==
  IntVariants \cup FloatVariants
    \cup {"Bool", "String", "CName", "TweakDbId", "ResRef", "Variant", "NodeRef", "CRUID"}

\* enum TypeId, the types that carry a pool index or an element type.
IndexedTypes == {"Ref", "WRef", "ScriptRef", "Enum", "Struct", "Array", "StaticArray"}

TypeIds ==
  {TypeId(id, 0) : id \in PlainTypes} \cup {TypeId(id, idx) : id \in IndexedTypes, idx \in Classes}

\* The type whose default is made, the type has_type is asked about and
\* its answer.
TypeFrame(typ) == [typ |-> typ, probe |-> typ, res |-> FALSE] @@ KFrame("Host")

InitDefault ==
  /\ pool = OpenPool(<<>>)
  /\ natives = [n \in NativeNames |-> RegisteredNative(n)]
  /\ vtables = [c \in Classes |-> NoVtable]
  /\ debt = 0
  /\ heap \in {<<>>, <<ArrayCell(<<>>)>>}
  /\ stack = <<>>
  /\ frames = <<>>
  /\ contexts = <<>>
  /\ \E typ \in TypeIds : kont = <<TypeFrame(typ)>>
  /\ pc = "Host"
  /\ status = "ok"
  /\ last = "new"

\* typ.default_value(mc, meta)
HostDefault ==
  /\ pc = "Host"
  /\ last = "new"
  /\ LET typ == Top(kont).typ
         d == DefaultValue(heap, typ.id)
     IN IF DefaultTodo(typ.id) THEN Mid("default_value", Panic(Root), kont, "Halt")
        ELSE Mid("default_value", [Root EXCEPT !.heap = d.heap, !.stack = Append(stack, d.val)],
                 kont, "Host")

\* value.has_type(&probe)
HostHasType(probe) ==
  /\ pc = "Host"
  /\ last = "default_value"
  /\ Mid("has_type", Root,
         <<[Top(kont) EXCEPT !.probe = probe, !.res = HasType(heap, Top(stack), probe)]>>, "Host")

NextDefault ==
  \/ HostDefault
  \/ \E probe \in TypeIds : HostHasType(probe)

SpecDefault == InitDefault /\ [][NextDefault]_vars

\* C13: for every resolved type T whose default value is implemented (all
\* but NodeRef, CRUID, ScriptRef and StaticArray), default_value(T) has
\* type T; Variant, Enum, Struct, Ref, WRef and Array included.
C13_DefaultHasType ==
  (last = "has_type" /\ Top(kont).probe = Top(kont).typ) => Top(kont).res

(***************************************************************************)
(* Unregistered natives: the host registers some of the pool's natives and *)
(* calls one of them, or main, whose code calls them.                      *)
(***************************************************************************)
\* Metadata::register_native was called for the natives in names.
Registered(names) == [n \in NativeNames |-> IF n \in names THEN RegisteredNative(n) ELSE NoNative]

\* VM::new(pool), then register_native for some of the natives.
InitUndefined ==
  /\ pool = [OpenPool(<<"x">>) EXCEPT !.ints = MaxSum]
  /\ \E names \in SUBSET (NativeNames \ {"Undefined"}) : natives = Registered(names)
  /\ vtables = [c \in Classes |-> NoVtable]
  /\ debt = 0
  /\ heap = <<>>
  /\ stack = <<>>
  /\ frames = <<>>
  /\ contexts = <<>>
  /\ kont = <<>>
  /\ pc = "Host"
  /\ status = "ok"
  /\ last = "new"

NativeFunctions == {RootFunction(n) : n \in NativeNames}

NextUndefined ==
  \/ \E f \in NativeFunctions \cup {RootFunction("main")} :
       FirstCall /\ HostCall("call_void", f, [i \in 1..Len(Parameters(f)) |-> I32(1)])
  \/ HostReturn
  \/ AtValue /\ ExecConst(I32(1))
  \/ AtPlace /\ ExecLocal("x")
  \/ \E f \in NativeFunctions : Shallow /\ AtCall /\ InvokeStatic(f)
  \/ CallNativeFunction
  \/ CallFunction
  \/ ReturnTyped(FALSE) /\ ReturnVoid
  \/ CallExit

SpecUndefined == InitUndefined /\ [][NextUndefined]_vars

\* C14: a call of a function whose native flag is set and for which no host
\* function is registered returns UndefinedNative with the function's name;
\* no thunk runs (the arguments stay on the operand stack, no cell is
\* written), no frame and no result is pushed, and the error leaves the
\* evaluator.
C14_UndefinedNative ==
  [][(/\ Ready("InvokeStatic")
      /\ IsNative(Top(kont).fun)
      /\ natives[Top(kont).fun[2]] = NoNative)
     => /\ status' = UndefinedNative(Top(kont).fun[2])
        /\ stack' = stack
        /\ frames' = frames
        /\ heap' = heap
        /\ kont' = <<>>
        /\ pc' = "Host"]_vars

\* main called the unregistered OperatorAdd with two arguments.
C14_Witness ==
  /\ status = UndefinedNative("OperatorAdd")
  /\ last = "CallNative"
  /\ Len(frames) = 1
  /\ stack = <<I32(1), I32(1)>>

(***************************************************************************)
(* Top-level calls: the host calls main, callee and natives again and      *)
(* again, with argument lists of every length; main's code may fail inside *)
(* a Context, which leaves its local map, its context and its operands     *)
(* behind for the next call.                                               *)
(***************************************************************************)
InitInterop == NewVM(OpenPool(<<>>))

\* The host may call again: the local maps left behind are bounded.
CallAgain == Len(frames) < Calls

InteropTargets ==
  {RootFunction("main"), RootFunction("callee"), RootFunction("Log"), RootFunction("Undefined")}

NextInterop ==
  \/ \E entry \in {"call_void", "call_with_callback"}, f \in InteropTargets, n \in 0..2 :
       CallAgain /\ HostCall(entry, f, [i \in 1..n |-> I32(1)])
  \/ HostReturn
  \/ AtOperand /\ ExecConst(I32(1))
  \/ AtOperand /\ ExecNew(1)
  \/ AtStatement /\ Context
  \/ ContextEnter
  \/ ContextEnd
  \/ \E f \in {RootFunction("Log"), RootFunction("Undefined")} : AtMember /\ InvokeStatic(f)
  \/ CallNativeFunction
  \/ CallFunction
  \/ ReturnTyped(TRUE) /\ Return
  \/ ReturnValue
  \/ ReturnTyped(FALSE) /\ ReturnVoid
  \/ CallExit

SpecInterop == InitInterop /\ [][NextInterop]_vars

\* C15: a top-level call_void, call or call_with_callback goes on to
\* call_with_params only with as many arguments as the function declares
\* parameters; with any other number it returns InvalidInteropParameters and
\* the operand stack, the frames stack and the context stack (and the heap)
\* are as they were before the call.
C15_InvalidInteropParameters ==
  [][last' = "call_void"
     => IF status' = "ok"
        THEN Top(kont').ph = Len(Parameters(Top(kont').fun))
        ELSE /\ status' = "InvalidInteropParameters"
             /\ stack' = stack
             /\ frames' = frames
             /\ contexts' = contexts
             /\ heap' = heap
             /\ kont' = <<>>
             /\ pc' = "Host"]_vars

\* A call with the wrong number of arguments was refused while an earlier,
\* failed call had left a value, a local map and a context behind.
C15_Witness ==
  /\ last = "call_void"
  /\ status = "InvalidInteropParameters"
  /\ stack # <<>>
  /\ frames # <<>>
  /\ contexts # <<>>

(***************************************************************************)
(* Unsupported instructions: main and callee are made of constants, local  *)
(* reads and assignments, calls, and the instructions exec_with does not   *)
(* implement.                                                              *)
(***************************************************************************)
InitTodo == NewVM(OpenPool(<<"x">>))

NextTodo ==
  \/ FirstCall /\ HostCall("call_void", RootFunction("main"), <<>>)
  \/ HostReturn
  \/ AtOperand /\ ExecConst(I32(1))
  \/ AtOperand /\ ExecLocal("x")
  \/ AtStatement /\ Assign("x")
  \/ AssignEnd
  \/ Shallow /\ CallTyped(RootFunction("callee")) /\ InvokeStatic(RootFunction("callee"))
  \/ CallFunction
  \/ ReturnTyped(TRUE) /\ Return
  \/ ReturnValue
  \/ ReturnTyped(FALSE) /\ ReturnVoid
  \/ CallExit
  \/ \E op \in TodoInstrs : ExecTodo(op)

SpecTodo == InitTodo /\ [][NextTodo]_vars

\* C16: executing an unsupported instruction makes exec return an error of
\* kind Todo, which leaves the evaluator through every enclosing handler
\* and is what the call entry point returns.
C16_TodoError ==
  [][(pc = "Fetch" /\ last' \in TodoInstrs)
     => /\ status' = "Todo"
        /\ kont' = <<>>
        /\ pc' = "Host"]_vars

(***************************************************************************)
(* Assignment targets: the function the host calls is one Assign followed  *)
(* by a target instruction and the operands, for every kind of target.     *)
(***************************************************************************)
K(n) == Ins("Const", "I32", n)

\* Instructions VM::assignment has no arm for.
OtherInstrs ==
  {"Nop", "Null", "I32Const", "This", "New", "Return", "Assign", "InvokeStatic", "InvokeVirtual",
   "Equals", "AsRef", "Deref", "ArraySize", "ArrayPush", "DynamicCast", "Switch", "Construct",
   "ParamEnd", "Delete"}

\* An Assign for each target form the VM supports.
SupportedPrograms ==
  {[fun |-> RootFunction("main"), code |-> <<Ins("Assign", "", 0), Ins("Local", "x", 0), K(1)>>],
   [fun |-> RootFunction("callee"), code |-> <<Ins("Assign", "", 0), Ins("Param", "a", 0), K(0)>>],
   [fun |-> RootFunction("main"),
    code |-> <<Ins("Context", "", 0), Ins("New", "", 1),
               Ins("Assign", "", 0), Ins("ObjectField", "", 1), K(1)>>],
   [fun |-> RootFunction("main"), code |-> <<Ins("Assign", "", 0), Ins("ObjectField", "", 1), K(1)>>],
   [fun |-> RootFunction("main"),
    code |-> <<Ins("Assign", "", 0), Ins("StructField", "", StructFields[1]), Ins("Local", "s", 0), K(1)>>],
   [fun |-> RootFunction("main"),
    code |-> <<Ins("ArrayPush", "", 0), Ins("Local", "arr", 0), K(0),
               Ins("Assign", "", 0), Ins("ArrayElement", "", 0), Ins("Local", "arr", 0), K(0), K(1)>>],
   [fun |-> RootFunction("main"),
    code |-> <<Ins("Assign", "", 0), Ins("Context", "", 0), Ins("New", "", 1),
               Ins("ObjectField", "", 1), K(1)>>]}

\* An Assign followed by another instruction, and one whose Context
\* receiver is followed by something else than ObjectField; an Assign and a
\* receiver at the end of the code.
UnsupportedPrograms ==
  {[fun |-> RootFunction("main"), code |-> <<Ins("Assign", "", 0), Ins(op, "", 0), K(1)>>] :
     op \in OtherInstrs}
    \cup {[fun |-> RootFunction("main"),
           code |-> <<Ins("Assign", "", 0), Ins("Context", "", 0), Ins("New", "", 1),
                      Ins(op, "", 0), K(1)>>] :
            op \in OtherInstrs \cup {"Local", "Param", "StructField", "ArrayElement", "Context"}}
    \cup {[fun |-> RootFunction("main"), code |-> <<Ins("Assign", "", 0)>>],
          [fun |-> RootFunction("main"),
           code |-> <<Ins("Assign", "", 0), Ins("Context", "", 0), Ins("New", "", 1)>>]}

AssignPool(prog) ==
  [OpenPool(<<"x", "s", "arr">>) EXCEPT
     !.free = FALSE, !.code = [f \in Functions |-> IF f = prog.fun THEN prog.code ELSE <<>>]]

InitAssign == \E prog \in SupportedPrograms \cup UnsupportedPrograms : NewVM(AssignPool(prog))

NextAssign ==
  \/ \E f \in {RootFunction("main"), RootFunction("callee")} :
       /\ FirstCall
       /\ pool.code[f] # <<>>
       /\ HostCall("call_void", f, [i \in 1..Len(Parameters(f)) |-> I32(1)])
  \/ HostReturn
  \/ CallFunction
  \/ CodeEnd
  \/ CallExit
  \/ \E n \in {0, 1} : ExecConst(I32(n))
  \/ \E idx \in {"s", "arr"} : ExecLocal(idx)
  \/ ExecNew(1)
  \/ Context
  \/ ContextEnter
  \/ ContextEnd
  \/ ExecArray("ArrayPush")
  \/ ArrayPushEnd
  \/ \E idx \in {"x", "a"} : Assign(idx)
  \/ AssignEnd
  \/ AssignField(1)
  \/ AssignFieldEnd
  \/ AssignStruct(StructFields[1])
  \/ AssignStructEnd
  \/ AssignElement
  \/ AssignElementEnd
  \/ AssignContext
  \/ AssignContextTarget(1)
  \/ AssignContextUnsupported
  \/ AssignContextEnd
  \/ AssignUnsupported

SpecAssign == InitAssign /\ [][NextAssign]_vars

\* exec_with is about to fetch an Assign that another instruction follows.
AtAssign ==
  /\ pc = "Fetch"
  /\ CallIndex(kont) # 0
  /\ CurrentIp + 1 < Len(CurrentCode)
  /\ CurrentCode[CurrentIp + 1].op = "Assign"

\* assignment has evaluated the receiver of a Context target and another
\* instruction follows.
AfterReceiver ==
  /\ Ready("AssignContext")
  /\ Top(kont).ph = 1
  /\ CurrentIp < Len(CurrentCode)

\* C17: Assign raises UnsupportedAssignmentOperand exactly when the
\* instruction that follows it is not Local, Param, ObjectField,
\* StructField, ArrayElement or Context, or when it is Context and the
\* instruction that follows the receiver is not ObjectField; for the listed
\* forms the error is not raised, and nothing else raises it.
C17_UnsupportedAssignmentOperand ==
  [][LET raised == status' = "UnsupportedAssignmentOperand"
     IN /\ AtAssign
             => (raised <=> CurrentCode[CurrentIp + 2].op \notin
                              {"Local", "Param", "ObjectField", "StructField", "ArrayElement", "Context"})
        /\ AfterReceiver => (raised <=> CurrentCode[CurrentIp + 1].op # "ObjectField")
        /\ raised => (AtAssign \/ AfterReceiver)]_vars

\* The receiver of a Context target was evaluated and the instruction after
\* it was not ObjectField.
C17_Witness ==
  /\ status = "UnsupportedAssignmentOperand"
  /\ last = "AssignContextTarget"
  /\ stack = <<ObjInstance(3)>>

\* The assignment to a Param went through.
C17_ParamWitness ==
  /\ last = "AssignLocal"
  /\ status = "ok"
  /\ frames # <<>>
  /\ "a" \in DOMAIN frames[1]
  /\ frames[1]["a"] = I32(0)

(***************************************************************************)
(* Null dereferences: main evaluates This, ObjectField, an assignment to   *)
(* an ObjectField, InvokeVirtual and DynamicCast with no context, under a  *)
(* Null context and under an instance.                                     *)
(***************************************************************************)
NullPool == [OpenPool(<<>>) EXCEPT !.decl = [c \in Classes |-> IF c = 1 THEN {"Inc"} ELSE {}]]

InitNull == NewVM(NullPool)

NextNull ==
  \/ FirstCall /\ HostCall("call_void", RootFunction("main"), <<>>)
  \/ HostReturn
  \/ AtOperand /\ ExecNew(1)
  \/ AtOperand /\ ExecConst(ObjNull)
  \/ AtOperand /\ ExecConst(I32(1))
  \/ AtStatement /\ Context
  \/ ContextEnter
  \/ ContextEnd
  \/ ExecThis
  \/ ExecObjectField(1)
  \/ ~AtOperand /\ AssignField(1)
  \/ AssignFieldEnd
  \/ ~AtOperand /\ InvokeVirtual("Inc")
  \/ CallFunction
  \/ ReturnTyped(FALSE) /\ ReturnVoid
  \/ CallExit
  \/ AtOperand /\ ExecDynamicCast(1)
  \/ DynamicCastEnd

SpecNull == InitNull /\ [][NextNull]_vars

\* The step dereferences the current context.
ContextStep ==
  \/ pc = "Fetch" /\ last' \in {"This", "ObjectField", "InvokeVirtual"}
  \/ pc = "Fetch" /\ last' = "exec" /\ Top(kont').op = "InvokeStatic" /\ Top(kont').loc = "Inc"
  \/ Ready("AssignObjectField")

\* The step is the block of DynamicCast and its operand is Obj(Null).
NullCastStep ==
  /\ Ready("DynamicCast")
  /\ stack # <<>>
  /\ Unpinned(heap, Top(stack)) = ObjNull

\* C18: every dereference of a null object ends in the error NullPointer
\* returned to the host: This, an ObjectField read or assignment and
\* InvokeVirtual while the context stack is empty or its top is Null, and
\* DynamicCast applied to Obj(Null).
C18_NullPointer ==
  [][((ContextStep /\ ~HasContext(Root)) \/ NullCastStep)
     => /\ status' = "NullPointer"
        /\ kont' = <<>>
        /\ pc' = "Host"]_vars

(***************************************************************************)
(* Error propagation: main raises NullPointer, UndefinedNative and         *)
(* UnsupportedAssignmentOperand at the top level, inside operands and      *)
(* Context members, and inside callee called from main.                    *)
(***************************************************************************)
InitError == NewVM(OpenPool(<<>>))

NextError ==
  \/ \E entry \in {"call_void", "call_with_callback"} :
       FirstCall /\ HostCall(entry, RootFunction("main"), <<>>)
  \/ HostReturn
  \/ AtOperand /\ ExecNew(1)
  \/ AtOperand /\ ExecConst(ObjNull)
  \/ AtStatement /\ Context
  \/ ContextEnter
  \/ ContextEnd
  \/ ExecObjectField(1)
  \/ ExecDynamicCast(1)
  \/ DynamicCastEnd
  \/ AtOperand /\ ExecEquals
  \/ EqualsEnd
  \/ ~AtOperand /\ AssignUnsupported
  \/ Shallow /\ CallTyped(RootFunction("callee")) /\ InvokeStatic(RootFunction("callee"))
  \/ CallTyped(RootFunction("Undefined")) /\ InvokeStatic(RootFunction("Undefined"))
  \/ CallNativeFunction
  \/ CallFunction
  \/ ReturnTyped(TRUE) /\ Return
  \/ ReturnValue
  \/ ReturnTyped(FALSE) /\ ReturnVoid
  \/ CallExit

SpecError == InitError /\ [][NextError]_vars

\* The step is one whose block returns Err(NullPointer).
NullPointerStep ==
  \/ pc = "Fetch" /\ last' = "ObjectField" /\ ~HasContext(Root)
  \/ NullCastStep

\* The step is call_native for a function without a registered native.
UndefinedNativeStep ==
  /\ Ready("InvokeStatic")
  /\ IsNative(Top(kont).fun)
  /\ natives[Top(kont).fun[2]] = NoNative

\* The step is VM::assignment on an instruction it has no arm for.
UnsupportedStep == pc = "Fetch" /\ last' = "Assign"

\* The call entry point returns Err(err): no handler is left waiting.
Returns(err) == status' = err /\ kont' = <<>> /\ pc' = "Host"

\* C19: once a step at any call depth returns an error, the handlers of
\* every enclosing instruction and call return it unchanged (none catches
\* or replaces it), so no further instruction is executed and the host's
\* call_void or call_with_callback returns that same error.
C19_ErrorPropagates ==
  [][/\ NullPointerStep => Returns("NullPointer")
     /\ UndefinedNativeStep => Returns(UndefinedNative(Top(kont).fun[2]))
     /\ UnsupportedStep => Returns("UnsupportedAssignmentOperand")
     /\ status' \notin {"ok", "panic"} => (kont' = <<>> /\ pc' = "Host")
     /\ status \notin {"ok", "panic"} => last' \in {"call_void", "call_with_callback"}]_vars

\* NullPointer raised by the member of a Context inside callee, called as an
\* operand by main: it went through Context, run, call_static, the operand's
\* handler and main's run.
C19_Witness ==
  /\ status = "NullPointer"
  /\ last = "ObjectField"
  /\ Len(frames) = 2
  /\ contexts = <<ObjNull>>
  /\ kont = <<>>
  /\ pc = "Host"

(***************************************************************************)
(* Native thunks and their arguments: the host and main call the Int32     *)
(* natives with Int32, Bool and Null arguments.                            *)
(***************************************************************************)
ThunkValues == {I32(1), Bool(TRUE), ObjNull}

InitThunk == NewVM(OpenPool(<<"x">>))

NextThunk ==
  \/ \E f \in {RootFunction("main"), RootFunction("OperatorAdd"), RootFunction("Log")} :
       \E args \in [1..Len(Parameters(f)) -> ThunkValues] :
         FirstCall /\ HostCall("call_void", f, args)
  \/ HostReturn
  \/ \E f \in {RootFunction("OperatorAdd"), RootFunction("OperatorAssignAdd"), RootFunction("Log")} :
       Shallow /\ CallTyped(f) /\ InvokeStatic(f)
  \/ \E val \in ThunkValues : AtOperand /\ ExecConst(val)
  \/ AtOperand /\ ExecLocal("x")
  \/ CallNativeFunction
  \/ CallFunction
  \/ ReturnTyped(FALSE) /\ ReturnVoid
  \/ CallExit

SpecThunk == InitThunk /\ [][NextThunk]_vars

\* call_native is about to run a registered thunk, and one of the values it
\* will pop is not of the variant the host function declares (Int32).
MismatchStep ==
  /\ Ready("InvokeStatic")
  /\ IsNative(Top(kont).fun)
  /\ LET d == natives[Top(kont).fun[2]]
     IN /\ d # NoNative
        /\ Len(stack) >= d.arity
        /\ \E i \in 1..d.arity : ~FromVMOk(heap, ThunkArgs(Root, d.arity)[i])

\* C20: when a thunk pops an argument whose variant does not match the
\* declared parameter type, the failed conversion is a runtime error
\* returned from the enclosing call to the host.
C20_ConversionError ==
  [][MismatchStep
     => /\ status' \notin {"ok", "panic"}
        /\ kont' = <<>>
        /\ pc' = "Host"]_vars

(***************************************************************************)
(* The native registry: on a new VM the host registers thunks under names  *)
(* that are and are not root functions of the pool, again and again, and   *)
(* calls OperatorAdd, Log and main, whose code calls OperatorAdd.          *)
(***************************************************************************)
\* The thunks the host registers: |x, y| Ret(x + y), |x, y| Ret(x - y).
HostThunks == {[kind |-> "ret", arity |-> 2, op |-> "add"], [kind |-> "ret", arity |-> 2, op |-> "sub"]}

\* The names it registers them under: Name is a method of a class, Missing
\* is not in the pool.
RegisteredNames == {"OperatorAdd", "Log", "main", "Name", "Missing"}

InitRegister ==
  /\ pool = [OpenPool(<<>>) EXCEPT !.ints = MaxSum]
  /\ natives = [n \in RootNames |-> NoNative]
  /\ vtables = [c \in Classes |-> NoVtable]
  /\ debt = 0
  /\ heap = <<>>
  /\ stack = <<>>
  /\ frames = <<>>
  /\ contexts = <<>>
  /\ kont = <<>>
  /\ pc = "Host"
  /\ status = "ok"
  /\ last = "new"

NextRegister ==
  \/ \E name \in RegisteredNames, function \in HostThunks : RegisterNative(name, function)
  \/ \E f \in {RootFunction("OperatorAdd"), RootFunction("Log"), RootFunction("main")} :
       /\ stack = <<>>
       /\ HostCall("call_with_callback", f, [i \in 1..Len(Parameters(f)) |-> I32(3 - i)])
  \/ HostReturn
  \/ AtOperand /\ ExecConst(I32(1))
  \/ Shallow /\ AtStatement /\ InvokeStatic(RootFunction("OperatorAdd"))
  \/ CallNativeFunction
  \/ CallFunction
  \/ ReturnTyped(FALSE) /\ ReturnVoid
  \/ CallExit

SpecRegister == InitRegister /\ [][NextRegister]_vars

\* The root after the native function on top of kont was dispatched to the
\* host function of thunk d (both host functions take two Int32 and return
\* one).
Invoked(d) ==
  /\ stack' = Append(Drop(stack, 2), I32(HostFn(d.op, <<Peek(stack, 2).v, Peek(stack, 1).v>>)))
  /\ status' = "ok"

\* C21: register_native(name, f) returns None and leaves the registry as it
\* was when the pool has no root function called name; otherwise it returns
\* Some, f is then the native of that function and of no other, no other
\* step changes the registry, and the dispatch of a native function (with
\* its two arguments on the stack) invokes the thunk the registry holds for
\* it: the one registered last.
C21_RegisterNative ==
  [][/\ last' = "register_native"
          => LET reg == Top(kont')
             IN IF reg.name \in {"main", "callee", "OperatorAssignAdd", "OperatorAssignSubtract",
                                 "OperatorAdd", "Log", "Undefined"}
                THEN /\ reg.some
                     /\ natives'[reg.name] = reg.native
                     /\ \A n \in DOMAIN natives \ {reg.name} : natives'[n] = natives[n]
                ELSE ~reg.some /\ natives' = natives
     /\ last' # "register_native" => natives' = natives
     /\ (Ready("InvokeStatic") /\ IsNative(Top(kont).fun) /\ last' = "CallNative"
          /\ natives[Top(kont).fun[2]] # NoNative /\ Len(stack) >= 2)
          => Invoked(natives[Top(kont).fun[2]])]_vars

\* OperatorAdd was registered as x + y and then as x - y, and main's call
\* of OperatorAdd(1, 1) pushed 0.
C21_Witness ==
  /\ natives["OperatorAdd"].op = "sub"
  /\ last = "CallNative"
  /\ Len(frames) = 1
  /\ stack = <<I32(0)>>

(***************************************************************************)
(* shell/test.rs: pretty_test_name.  A string is the sequence of its       *)
(* characters; the loop over name.chars() is one step per character.       *)
(***************************************************************************)
MaxName == 3

UpperCase ==
  <<"A", "B", "C", "D", "E", "F", "G", "H", "I", "J", "K", "L", "M",
    "N", "O", "P", "Q", "R", "S", "T", "U", "V", "W", "X", "Y", "Z">>

LowerCase ==
  <<"a", "b", "c", "d", "e", "f", "g", "h", "i", "j", "k", "l", "m",
    "n", "o", "p", "q", "r", "s", "t", "u", "v", "w", "x", "y", "z">>

\* char::is_ascii_uppercase
IsAsciiUppercase(c) == \E i \in DOMAIN UpperCase : UpperCase[i] = c

\* char::to_ascii_lowercase
ToAsciiLowercase(c) ==
  IF IsAsciiUppercase(c) THEN LowerCase[CHOOSE i \in DOMAIN UpperCase : UpperCase[i] = c] ELSE c

\* The body of the loop of pretty_test_name for the character c.
PushChar(str, c) ==
  IF IsAsciiUppercase(c) THEN str \o <<" ", ToAsciiLowercase(c)>>
  ELSE IF c # ";" THEN Append(str, c)
  ELSE str

\* The name of a test function without parameters as the pool holds it:
\* TestFoo and the ';' that ends the name part of its signature.
TestFoo == <<"T", "e", "s", "t", "F", "o", "o", ";">>

\* The names pretty_test_name is given.
TestNames ==
  {TestFoo} \cup UNION {[1..n -> {"T", "f", ";", "_"}] : n \in 0..MaxName}

\* The call of pretty_test_name: the name, the characters consumed (ip) and
\* the String built so far.
PrettyFrame(name) == [chars |-> name, str |-> <<>>] @@ KFrame("Host")

InitPretty ==
  /\ pool = OpenPool(<<>>)
  /\ natives = [n \in NativeNames |-> RegisteredNative(n)]
  /\ vtables = [c \in Classes |-> NoVtable]
  /\ debt = 0
  /\ heap = <<>>
  /\ stack = <<>>
  /\ frames = <<>>
  /\ contexts = <<>>
  /\ \E name \in TestNames : kont = <<PrettyFrame(name)>>
  /\ pc = "Host"
  /\ status = "ok"
  /\ last = "new"

\* One iteration of `for c in name.chars()`.
PrettyChar ==
  /\ pc = "Host"
  /\ Top(kont).ip < Len(Top(kont).chars)
  /\ LET fr == Top(kont)
     IN Mid("pretty_test_name", Root,
            <<[fr EXCEPT !.ip = fr.ip + 1, !.str = PushChar(fr.str, fr.chars[fr.ip + 1])]>>, "Host")

NextPretty == PrettyChar

SpecPretty == InitPretty /\ [][NextPretty]_vars

\* pretty_test_name has returned.
PrettyDone == Top(kont).ip = Len(Top(kont).chars)

\* C22: TestFoo with its trailing ';' signature is rendered exactly as
\* "test foo": a space before each uppercase letter but no leading space,
\* and no signature characters.
C22_PrettyTestName ==
  (PrettyDone /\ Top(kont).chars = TestFoo)
    => Top(kont).str = <<"t", "e", "s", "t", " ", "f", "o", "o">>

(***************************************************************************)
(* The allocation debt: main allocates instances (New), structs            *)
(* (Construct) and struct copies (the read of a struct local) in a pool    *)
(* whose cells are large enough for two of them to reach the threshold.    *)
(***************************************************************************)
CellBytes == 32000

InitGc == NewVM([OpenPool(<<"s">>) EXCEPT !.bytes = CellBytes])

NextGc ==
  \/ FirstCall /\ HostCall("call_void", RootFunction("main"), <<>>)
  \/ HostReturn
  \/ CallFunction
  \/ ReturnTyped(FALSE) /\ ReturnVoid
  \/ CallExit
  \/ ExecNew(1)
  \/ \E args \in {0, 1} : AtStatement /\ ExecConstruct(args)
  \/ ConstructEnd
  \/ AtOperand /\ ExecConst(I32(1))
  \/ AtStatement /\ ExecLocal("s")

SpecGc == InitGc /\ [][NextGc]_vars

\* The step completes an instruction that allocated in the arena.
AllocatingStep ==
  /\ last' \in {"New", "Construct", "Local"}
  /\ Len(heap') > Len(heap)

\* C23: after every instruction that allocates in the arena the
\* interpreter checks the allocation debt and runs a collection step when
\* it has reached the threshold of 64000, so that no allocating instruction
\* completes with the debt at or above the threshold.
C23_CheckGc == [][AllocatingStep => debt' < 64000]_vars

(***************************************************************************)
(* Out arguments: the function the host calls passes a local, a parameter  *)
(* or a field of the current context to a function that writes its first,  *)
(* out, parameter (callee, OperatorAssignAdd) or to one without an out     *)
(* parameter (OperatorAdd), and then returns what the slot reads.          *)
(***************************************************************************)
Call(f) == [Ins("InvokeStatic", "", 0) EXCEPT !.fun = f]

\* f(src, arg); return src
PassSlot(f, src, arg) == <<Call(f), src, arg, Ins("ParamEnd", "", 0), Ins("Return", "", 0), src>>

\* o = new C; o.f(o.field, 1) with f static; return o.field
PassField(f) ==
  <<Ins("Assign", "", 0), Ins("Local", "o", 0), Ins("New", "", 1),
    Ins("Context", "", 0), Ins("Local", "o", 0),
    Call(f), Ins("ObjectField", "", 1), K(1), Ins("ParamEnd", "", 0),
    Ins("Return", "", 0), Ins("Context", "", 0), Ins("Local", "o", 0), Ins("ObjectField", "", 1)>>

\* callee(out a, b) { a = 2 }
WriteParam == <<Ins("Assign", "", 0), Ins("Param", "a", 0), K(2)>>

\* The programs: the function the host calls, the code of main and callee,
\* the out argument and the Int32 the slot must read afterwards.
OutPrograms ==
  {[entry |-> "main", main |-> PassSlot(RootFunction("callee"), Ins("Local", "x", 0), Ins("Local", "y", 0)),
    callee |-> WriteParam, src |-> Ins("Local", "x", 0), reads |-> 2],
   [entry |-> "main", main |-> PassSlot(RootFunction("OperatorAssignAdd"), Ins("Local", "x", 0), K(1)),
    callee |-> <<>>, src |-> Ins("Local", "x", 0), reads |-> 1],
   [entry |-> "main", main |-> PassSlot(RootFunction("OperatorAssignAdd"), Ins("Local", "x", 0), K(2)),
    callee |-> <<>>, src |-> Ins("Local", "x", 0), reads |-> 2],
   [entry |-> "callee", main |-> <<>>,
    callee |-> PassSlot(RootFunction("OperatorAssignAdd"), Ins("Param", "a", 0), K(1)),
    src |-> Ins("Param", "a", 0), reads |-> 2],
   [entry |-> "main", main |-> PassField(RootFunction("callee")), callee |-> WriteParam,
    src |-> Ins("ObjectField", "", 1), reads |-> 2],
   [entry |-> "main", main |-> PassField(RootFunction("OperatorAssignAdd")), callee |-> <<>>,
    src |-> Ins("ObjectField", "", 1), reads |-> 1],
   [entry |-> "main", main |-> PassSlot(RootFunction("OperatorAdd"), Ins("Local", "x", 0), K(1)),
    callee |-> <<>>, src |-> Ins("Local", "x", 0), reads |-> 0],
   [entry |-> "callee", main |-> <<>>,
    callee |-> PassSlot(RootFunction("OperatorAdd"), Ins("Param", "a", 0), K(1)),
    src |-> Ins("Param", "a", 0), reads |-> 1],
   [entry |-> "main", main |-> PassField(RootFunction("OperatorAdd")), callee |-> <<>>,
    src |-> Ins("ObjectField", "", 1), reads |-> 0]}

OutPool(prog) ==
  [OpenPool(<<"x", "y", "o">>) EXCEPT
     !.ints = MaxSum,
     !.free = FALSE,
     !.code = [f \in Functions |->
                 CASE f = RootFunction("main") -> prog.main
                   [] f = RootFunction("callee") -> prog.callee
                   [] OTHER -> <<>>]]

InitOut == \E prog \in OutPrograms : NewVM(OutPool(prog))

NextOut ==
  \/ \E prog \in OutPrograms :
       /\ FirstCall
       /\ pool = OutPool(prog)
       /\ HostCall("call_with_callback", RootFunction(prog.entry),
                   [i \in 1..Len(Parameters(RootFunction(prog.entry))) |-> I32(1)])
  \/ HostReturn
  \/ \E f \in {RootFunction("callee"), RootFunction("OperatorAssignAdd"), RootFunction("OperatorAdd")} :
       InvokeStatic(f)
  \/ CallNativeFunction
  \/ CallFunction
  \/ Return
  \/ ReturnValue
  \/ CodeEnd
  \/ CallExit
  \/ \E n \in {1, 2} : ExecConst(I32(n))
  \/ \E idx \in {"x", "y", "o"} : ExecLocal(idx)
  \/ ExecParam("a")
  \/ ExecObjectField(1)
  \/ ExecNew(1)
  \/ \E idx \in {"o", "a"} : Assign(idx)
  \/ AssignEnd
  \/ Context
  \/ ContextEnter
  \/ ContextEnd

SpecOut == InitOut /\ [][NextOut]_vars

\* The slot the instruction ins reads, in the state with frames fs, heap h
\* and contexts cs.
Slot(fs, h, cs, ins) ==
  IF ins.op = "ObjectField" THEN h[Top(cs).v].m[ins.idx] ELSE fs[Len(fs)][ins.loc]

\* The step executes the Local, Param or ObjectField at Frame::ip.
SlotRead ==
  /\ pc = "Fetch"
  /\ CallIndex(kont) # 0
  /\ CurrentIp < Len(CurrentCode)
  /\ CurrentCode[CurrentIp + 1].op \in {"Local", "Param", "ObjectField"}
  /\ last' = CurrentCode[CurrentIp + 1].op

\* A Return precedes the instruction at Frame::ip.
AfterReturn == \E i \in 1..CurrentIp : CurrentCode[i].op = "Return"

\* C24: the Local, Param or ObjectField evaluated as the argument of an out
\* parameter leaves its slot holding a Pinned cell and pushes a Pinned of
\* the same cell (a new cell with the slot's value, or the cell the slot
\* already held); evaluated as any other operand it leaves the slot as it
\* was; and the read of the slot after the call yields what the callee (an
\* Assign to its Param, an out-pair native) wrote through the cell.
C24_OutPinsSlot ==
  [][SlotRead
     => LET ins == CurrentCode[CurrentIp + 1]
            before == Slot(frames, heap, contexts, ins)
            after == Slot(frames', heap', contexts', ins)
        IN /\ status' = "ok"
           /\ IF FetchPin
              THEN /\ after.t = "Pinned"
                   /\ Top(stack') = after
                   /\ IF before.t = "Pinned" THEN after = before /\ heap' = heap
                      ELSE after.v = Len(heap) + 1 /\ heap'[after.v].m = <<before>>
              ELSE after = before
           /\ \A prog \in OutPrograms :
                (pool = OutPool(prog) /\ ins = prog.src /\ AfterReturn)
                  => Unpinned(heap', Top(stack')) = I32(prog.reads)]_vars

\* main passed its field to callee, callee assigned 2 to its parameter, and
\* main's read of the field pushed the Pinned cell, which holds 2.
C24_Witness ==
  /\ pool.code[RootFunction("callee")] = WriteParam
  /\ last = "ObjectField"
  /\ Len(frames) = 1
  /\ stack # <<>>
  /\ Top(stack).t = "Pinned"
  /\ heap[Top(stack).v].m = <<I32(2)>>
  /\ heap[Top(contexts).v].m[1] = Top(stack)

(***************************************************************************)
(* A struct field as an out argument: main passes s.f, s a struct local,   *)
(* to callee (which assigns its out parameter), to OperatorAssignAdd and   *)
(* to OperatorAdd, and returns s.f.                                        *)
(***************************************************************************)
\* f(s.fd, n); return s.fd
PassStructField(f, fd, n) ==
  <<Call(f), Ins("StructField", "", fd), Ins("Local", "s", 0), K(n), Ins("ParamEnd", "", 0),
    Ins("Return", "", 0), Ins("StructField", "", fd), Ins("Local", "s", 0)>>

FieldPool(f, fd, n) ==
  [OpenPool(<<"s">>) EXCEPT
     !.ints = MaxSum,
     !.free = FALSE,
     !.code = [g \in Functions |->
                 CASE g = RootFunction("main") -> PassStructField(f, fd, n)
                   [] g = RootFunction("callee") -> WriteParam
                   [] OTHER -> <<>>]]

InitField ==
  \E f \in {RootFunction("callee"), RootFunction("OperatorAssignAdd"), RootFunction("OperatorAdd")},
     i \in DOMAIN StructFields, n \in {1, 2} :
    NewVM(FieldPool(f, StructFields[i], n))

NextField ==
  \/ FirstCall /\ HostCall("call_with_callback", RootFunction("main"), <<>>)
  \/ HostReturn
  \/ \E f \in {RootFunction("callee"), RootFunction("OperatorAssignAdd"), RootFunction("OperatorAdd")} :
       InvokeStatic(f)
  \/ CallNativeFunction
  \/ CallFunction
  \/ Return
  \/ ReturnValue
  \/ CodeEnd
  \/ CallExit
  \/ \E n \in {1, 2} : ExecConst(I32(n))
  \/ ExecLocal("s")
  \/ \E i \in DOMAIN StructFields : StructField(StructFields[i])
  \/ StructFieldEnd
  \/ Assign("a")
  \/ AssignEnd

SpecField == InitField /\ [][NextField]_vars

\* The field fd of the struct main's local s holds.
FieldOfLocal(fs, h, fd) == h[fs[1]["s"].v].m[fd]

\* C25: when StructField(f) of a struct held in a local is the argument of
\* an out parameter, the field slot of the local's struct becomes the
\* Pinned cell that is pushed, and what the callee writes through the cell
\* (an Assign to its Param, the out value of a native) is what field f of
\* the caller's local then holds.
C25_StructFieldPinned ==
  [][/\ (Ready("StructField") /\ Top(kont).pin /\ last' = "StructField")
          => LET slot == FieldOfLocal(frames', heap', Top(kont).idx)
             IN slot.t = "Pinned" /\ slot = Top(stack')
     /\ (Len(frames) = 2 /\ Ready("AssignLocal") /\ last' = "AssignLocal")
          => \A i \in DOMAIN StructFields :
               pool.code[RootFunction("main")][2].idx = StructFields[i]
                 => Unpinned(heap', FieldOfLocal(frames', heap', StructFields[i])) = Peek(stack, 1)]_vars

(***************************************************************************)
(* Assignments to locals and parameters: main assigns its locals x and y   *)
(* and passes them to callee(out a, b), which assigns its parameters and   *)
(* its local t.                                                            *)
(***************************************************************************)
InitStore == NewVM(OpenPool(<<"x", "y">>))

\* The current frame has the local or parameter idx.
InFrame(idx) == frames # <<>> /\ idx \in DOMAIN Top(frames)

NextStore ==
  \/ FirstCall /\ HostCall("call_void", RootFunction("main"), <<>>)
  \/ HostReturn
  \/ \E n \in {1, 2} : AtValue /\ ExecConst(I32(n))
  \/ \E idx \in {"x", "y"} : AtPlace /\ InFrame(idx) /\ ExecLocal(idx)
  \/ \E idx \in {"a", "b"} : AtPlace /\ InFrame(idx) /\ ExecParam(idx)
  \/ \E idx \in {"x", "y", "a", "b", "t"} : AtStatement /\ InFrame(idx) /\ Assign(idx)
  \/ AssignEnd
  \/ Shallow /\ AtStatement /\ Len(frames) = 1 /\ InvokeStatic(RootFunction("callee"))
  \/ CallFunction
  \/ ReturnTyped(TRUE) /\ Return
  \/ ReturnValue
  \/ ReturnTyped(FALSE) /\ ReturnVoid
  \/ CallExit

SpecStore == InitStore /\ [][NextStore]_vars

\* C26: the assignment to the local or parameter i of the value v on top
\* of the stack pops exactly that value; when the slot of the current frame
\* holds Pinned(c) the slot still holds Pinned(c) and c contains v, no
\* other cell and no slot changes; otherwise the slot contains v and no
\* other slot of this frame or of another frame changes, and no cell.
C26_AssignLocal ==
  [][(Ready("AssignLocal") /\ last' = "AssignLocal")
     => LET n == Len(frames)
            i == Top(kont).loc
            slot == frames[n][i]
            v == Peek(stack, 1)
        IN /\ status' = "ok"
           /\ stack' = SubSeq(stack, 1, Len(stack) - 1)
           /\ IF slot.t = "Pinned"
              THEN /\ frames' = frames
                   /\ heap'[slot.v].m = <<v>>
                   /\ Len(heap') = Len(heap)
                   /\ \A c \in DOMAIN heap \ {slot.v} : heap'[c] = heap[c]
              ELSE /\ frames'[n][i] = v
                   /\ Len(frames') = n
                   /\ DOMAIN frames'[n] = DOMAIN frames[n]
                   /\ \A j \in DOMAIN frames[n] \ {i} : frames'[n][j] = frames[n][j]
                   /\ \A m \in 1..(n - 1) : frames'[m] = frames[m]
                   /\ heap' = heap]_vars

\* callee assigned 2 to its out parameter a, bound to the Pinned cell of
\* main's x: both slots still hold the cell, which contains 2.
C26_Witness ==
  /\ last = "AssignLocal"
  /\ Len(frames) = 2
  /\ frames[2]["a"].t = "Pinned"
  /\ frames[1]["x"] = frames[2]["a"]
  /\ heap[frames[2]["a"].v].m = <<I32(2)>>
  /\ frames[1]["y"] = I32(1)

(***************************************************************************)
(* Switch: main runs one switch statement over Int32 constants, laid out   *)
(* as the compiler lays it out: Switch, the scrutinee, then for each case  *)
(* its SwitchLabel, the label's expression and the case's body, then the    *)
(* default.  Every body assigns the local x and returns.  The offsets of a *)
(* label are byte offsets from the label's own location.                   *)
(***************************************************************************)
\* x = n; return;
SwitchBody(n) ==
  <<Ins("Assign", "", 0), Ins("Local", "x", 0), K(n), Ins("Return", "", 0), Ins("Nop", "", 0)>>

\* case l: x = n; return;
SwitchCase(l, n) == <<Ins("SwitchLabel", "", 0), K(l)>> \o SwitchBody(n)

RECURSIVE SwitchCases(_, _)
SwitchCases(labels, n) ==
  IF labels = <<>> THEN <<>>
  ELSE SwitchCase(labels[1], n) \o SwitchCases(SubSeq(labels, 2, Len(labels)), n + 1)

\* The offsets of every label: next is the instruction after the case's
\* body, body the instruction after the label's expression.
Link(code) ==
  [i \in DOMAIN code |->
     IF code[i].op = "SwitchLabel"
     THEN [code[i] EXCEPT !.to = <<Offsets(code)[i + Len(SwitchCase(0, 0))] - Offsets(code)[i],
                                   Offsets(code)[i + 2] - Offsets(code)[i]>>]
     ELSE code[i]]

\* A statement that leaves a value on the operand stack (when junk), the
\* switch on s with its labels, a default or the statement after the chain.
SwitchCode(prog) ==
  Link((IF prog.junk THEN <<K(2)>> ELSE <<>>)
       \o <<Ins("Switch", "", 0), K(prog.s)>>
       \o SwitchCases(prog.labels, 1)
       \o (IF prog.default THEN <<Ins("SwitchDefault", "", 0)>> ELSE <<>>)
       \o SwitchBody(0))

SwitchLabels == {<<>>} \cup {<<l>> : l \in 0..2} \cup {<<l, m>> : l, m \in 0..2}

\* The programs; the last one ends with the scrutinee.
SwitchPrograms ==
  {SwitchCode([junk |-> junk, s |-> s, labels |-> labels, default |-> default]) :
     junk \in {FALSE}, s \in 0..2, labels \in SwitchLabels, default \in BOOLEAN}
    \cup {SwitchCode([junk |-> TRUE, s |-> s, labels |-> <<>>, default |-> default]) :
            s \in 0..2, default \in BOOLEAN}
    \cup {<<Ins("Switch", "", 0), K(1)>>}

SwitchPool(code) ==
  [OpenPool(<<"x">>) EXCEPT
     !.free = FALSE,
     !.code = [f \in Functions |-> IF f = RootFunction("main") THEN code ELSE <<>>]]

InitSwitch == \E code \in SwitchPrograms : NewVM(SwitchPool(code))

NextSwitch ==
  \/ FirstCall /\ HostCall("call_void", RootFunction("main"), <<>>)
  \/ HostReturn
  \/ CallFunction
  \/ ReturnVoid
  \/ CallExit
  \/ \E n \in 0..2 : ExecConst(I32(n))
  \/ Assign("x")
  \/ AssignEnd
  \/ Switch
  \/ SwitchUnwrap
  \/ SwitchLabel
  \/ SwitchCompare
  \/ SwitchEnd
  \/ ExecSwitchDefault

SpecSwitch == InitSwitch /\ [][NextSwitch]_vars

\* The Switch handler on top of kont returns Ok.
SwitchCompletes == Ready("Switch") /\ last' = "Switch" /\ status' = "ok"

\* C27: the handler of a Switch records the depth of the operand stack when
\* the instruction is fetched and keeps it; when the handler completes, on
\* a match or without one, the operand stack is the stack it had then: the
\* scrutinee, its copies and the label values are gone.
C27_SwitchRestoresDepth ==
  [][/\ (pc = "Fetch" /\ Len(kont') = Len(kont) + 1 /\ Top(kont').op = "Switch")
        => Top(kont').sp = Len(stack) /\ stack' = stack
     /\ \A i \in DOMAIN kont \cap DOMAIN kont' :
          kont[i].op = "Switch" /\ kont'[i].op = "Switch" /\ status' = "ok"
            => /\ kont'[i].sp = kont[i].sp
               /\ Len(stack') > kont[i].sp
               /\ SubSeq(stack', 1, kont[i].sp) = SubSeq(stack, 1, kont[i].sp)
     /\ SwitchCompletes
          => /\ Len(stack') = Top(kont).sp
             /\ stack' = SubSeq(stack, 1, Top(kont).sp)]_vars

\* A switch with a label equal to the scrutinee completed below a value an
\* earlier statement left on the stack, and one without labels.
C27_Witness ==
  /\ last = "Switch"
  /\ status = "ok"
  /\ stack = <<>>
  /\ \E i \in DOMAIN CurrentCode : CurrentCode[i].op = "SwitchLabel"

C27_WitnessBelow ==
  /\ last = "Switch"
  /\ status = "ok"
  /\ stack = <<I32(2)>>

\* The labels of the running function in bytecode order, as indexes of its
\* code, and the value of a label's expression.
LabelIndexes == {i \in DOMAIN CurrentCode : CurrentCode[i].op = "SwitchLabel"}

LabelValue(i) == I32(CurrentCode[i + 1].idx)

\* The labels equal to the scrutinee of the handler on top of kont.
EqualLabels ==
  {i \in LabelIndexes : ValueEquals(heap, stack[Top(kont).sp + 1], LabelValue(i))}

\* Frame::ip after the step.
NextIp == kont'[CallIndex(kont')].ip

\* C28: a label's expression is evaluated only when no earlier label is
\* equal to the scrutinee; when the switch completes Frame::ip is at the
\* location the body offset of the first equal label gives (the instruction
\* after that label's expression) or, when no label is equal, at the
\* location the next offset of the last label gives (the SwitchDefault or
\* the statement after the chain).
C28_SwitchFirstEqualLabel ==
  [][/\ (Ready("Switch") /\ last' = "SwitchLabel")
        => \A i \in EqualLabels : i >= CurrentIp + 1
     /\ (SwitchCompletes /\ LabelIndexes # {})
        => LET first == CHOOSE i \in EqualLabels : \A j \in EqualLabels : i <= j
               final == CHOOSE i \in LabelIndexes : \A j \in LabelIndexes : j <= i
               code == CurrentCode
           IN IF EqualLabels # {}
              THEN /\ Location(code, NextIp) = Location(code, first - 1) + code[first].to[2]
                   /\ NextIp = first + 1
              ELSE /\ Location(code, NextIp) = Location(code, final - 1) + code[final].to[1]
                   /\ NextIp = final - 1 + Len(SwitchCase(0, 0))
                   /\ code[NextIp + 1].op \in {"SwitchDefault", "Assign"}]_vars

\* Both labels are equal to the scrutinee and the body of the first one
\* ran; no label is equal and the default ran.
C28_Witness ==
  /\ last = "AssignLocal"
  /\ Cardinality(LabelIndexes) = 2
  /\ CurrentCode[2].idx = CurrentCode[4].idx
  /\ CurrentCode[2].idx = CurrentCode[11].idx
  /\ frames[1]["x"] = I32(1)

C28_WitnessDefault ==
  /\ last = "AssignLocal"
  /\ Cardinality(LabelIndexes) = 2
  /\ CurrentCode[2].idx \notin {CurrentCode[4].idx, CurrentCode[11].idx}
  /\ CurrentIp = 20
  /\ frames[1]["x"] = I32(0)

(***************************************************************************)
(* Return: main calls callee as a statement and goes on; callee's code     *)
(* returns a value, returns without one, or runs to its end, after         *)
(* statements that assign its local or leave a value on the stack.         *)
(***************************************************************************)
\* t = 1;
AssignT == <<Ins("Assign", "", 0), Ins("Local", "t", 0), K(1)>>

ReturnCodes ==
  {<<Ins("Return", "", 0), K(n)>> \o AssignT : n \in 0..2}
    \cup {<<Ins("Return", "", 0), Ins("Nop", "", 0)>> \o AssignT,
          AssignT,
          AssignT \o <<Ins("Return", "", 0), Ins("Local", "t", 0), Ins("Nop", "", 0)>>,
          AssignT \o <<Ins("Return", "", 0), Ins("Nop", "", 0), Ins("Local", "t", 0)>>,
          <<K(1), Ins("Return", "", 0), Ins("Nop", "", 0), K(2)>>,
          <<K(1), K(1)>>}
    \cup {<<K(1), Ins("Return", "", 0), K(n), Ins("Nop", "", 0)>> : n \in 0..2}

\* callee(1, 1); x = 2;
CallThenAssign ==
  <<Call(RootFunction("callee")), K(1), K(1), Ins("ParamEnd", "", 0),
    Ins("Assign", "", 0), Ins("Local", "x", 0), K(2)>>

ReturnPool(code) ==
  [OpenPool(<<"x">>) EXCEPT
     !.free = FALSE,
     !.code = [f \in Functions |->
                 CASE f = RootFunction("main") -> CallThenAssign
                   [] f = RootFunction("callee") -> code
                   [] OTHER -> <<>>]]

InitReturn == \E code \in ReturnCodes : NewVM(ReturnPool(code))

NextReturn ==
  \/ FirstCall /\ HostCall("call_void", RootFunction("main"), <<>>)
  \/ HostReturn
  \/ InvokeStatic(RootFunction("callee"))
  \/ CallFunction
  \/ Return
  \/ ReturnValue
  \/ ReturnVoid
  \/ CodeEnd
  \/ CallExit
  \/ \E n \in 0..2 : ExecConst(I32(n))
  \/ ExecLocal("t")
  \/ \E idx \in {"x", "t"} : Assign(idx)
  \/ AssignEnd

SpecReturn == InitReturn /\ [][NextReturn]_vars

\* run's exec is about to fetch a Return, followed (or not) by Nop.
AtReturn(nop) ==
  /\ pc = "Fetch"
  /\ Top(kont).op = "Call"
  /\ CurrentIp < Len(CurrentCode)
  /\ CurrentCode[CurrentIp + 1].op = "Return"
  /\ nop = (CurrentIp + 1 < Len(CurrentCode) /\ CurrentCode[CurrentIp + 2].op = "Nop")

\* run's exec is entered past the last instruction.
AtCodeEnd == pc = "Fetch" /\ Top(kont).op = "Call" /\ CurrentIp >= Len(CurrentCode)

C29_WitnessVoid ==
  /\ last = "AssignLocal"
  /\ Len(frames) = 1
  /\ pool.code[RootFunction("callee")][1] = K(1)
  /\ stack = <<>>
  /\ frames[1]["x"] = I32(2)

(***************************************************************************)
(* The context stack: main runs one Context statement whose receiver is a  *)
(* new instance, null or itself a Context, and whose inner expression is a *)
(* field, this, a call of the method Inc or another Context; the body of   *)
(* Inc may run a Context of its own.                                       *)
(***************************************************************************)
\* receiver.inner
Ctx(receiver, inner) == <<Ins("Context", "", 0)>> \o receiver \o inner

NewObject == <<Ins("New", "", 1)>>

Member == <<Ins("ObjectField", "", 1)>>

This == <<Ins("This", "", 0)>>

CallMethod == <<Ins("InvokeVirtual", "Inc", 0)>>

Receivers == {NewObject, <<Ins("Const", "Obj", 0)>>, Ctx(NewObject, This)}

Inners ==
  {Member, This, CallMethod, Ctx(NewObject, Member), Ctx(This, Member), Ctx(NewObject, CallMethod)}

MethodBodies ==
  {<<Ins("Return", "", 0), Ins("Nop", "", 0)>>,
   Ctx(NewObject, Member) \o <<Ins("Return", "", 0), Ins("Nop", "", 0)>>,
   Ctx(This, This) \o <<Ins("Return", "", 0), Ins("Nop", "", 0)>>}

ContextPool(main, method) ==
  [NullPool EXCEPT
     !.free = FALSE,
     !.code = [f \in Functions |->
                 CASE f = RootFunction("main") -> main
                   [] f = <<1, "Inc">> -> method
                   [] OTHER -> <<>>]]

InitContext ==
  \E receiver \in Receivers, inner \in Inners, method \in MethodBodies :
    NewVM(ContextPool(Ctx(receiver, inner), method))

NextContext ==
  \/ FirstCall /\ HostCall("call_void", RootFunction("main"), <<>>)
  \/ HostReturn
  \/ ExecNew(1)
  \/ ExecConst(ObjNull)
  \/ ExecThis
  \/ Context
  \/ ContextEnter
  \/ ContextEnd
  \/ ExecObjectField(1)
  \/ InvokeVirtual("Inc")
  \/ CallFunction
  \/ ReturnVoid
  \/ CodeEnd
  \/ CallExit

SpecContext == InitContext /\ [][NextContext]_vars

\* The handler i of k is a Context that has pushed its receiver and not yet
\* popped it, when the evaluator is at p.
Pushed(k, p, i) ==
  /\ k[i].op = "Context"
  /\ \/ k[i].ph = 2
     \/ k[i].ph = 1 /\ ~(i = Len(k) /\ p = "Ready")

\* The number of such handlers among the first i of k: the depth of the
\* context stack at which handler i keeps its receiver.
Depth(k, p, i) == Cardinality({j \in 1..i : Pushed(k, p, j)})

\* C30: while no error has occurred the context stack holds exactly the
\* receivers of the Context handlers that wait for their inner expression,
\* in the order the handlers were entered: a Context pushes its receiver on
\* top, every step of its inner expression (calls and nested Contexts
\* included) leaves its entry and the entries below unchanged, nothing but a
\* nested Context is ever above it, and its completion pops its own entry,
\* leaving the stack as it was when the Context was fetched.
C30_ContextStack ==
  [][status' = "ok"
       => /\ Len(contexts') = Depth(kont', pc', Len(kont'))
          /\ \A i \in DOMAIN kont \cap DOMAIN kont' :
               Pushed(kont, pc, i) /\ Pushed(kont', pc', i)
                 => SubSeq(contexts', 1, Depth(kont, pc, i)) = SubSeq(contexts, 1, Depth(kont, pc, i))
          /\ (Ready("Context") /\ Top(kont).ph = 1)
               => contexts' = Append(contexts, Unpinned(heap, Top(stack)))
          /\ (Ready("Context") /\ Top(kont).ph = 2)
               => /\ contexts # <<>>
                  /\ contexts' = Pop(contexts)
                  /\ Len(contexts) = Depth(kont, pc, Len(kont))
          /\ (pc = "Fetch" /\ last' \in {"This", "ObjectField", "InvokeVirtual"} /\ contexts # <<>>)
               => \E i \in DOMAIN kont :
                    /\ Pushed(kont, pc, i)
                    /\ Depth(kont, pc, i) = Len(contexts)
                    /\ \A j \in (i + 1)..Len(kont) : ~Pushed(kont, pc, j)
          /\ ~Ready("Context") => contexts' = contexts]_vars

\* Inside the method called by the inner expression of a Context on a first
\* instance, a Context on a second instance completed: the first instance
\* is again the only entry.
C30_Witness ==
  /\ last = "Context"
  /\ status = "ok"
  /\ Len(kont) = 4
  /\ kont[3].op = "Context"
  /\ kont[4].op = "Call"
  /\ Len(heap) = 2
  /\ contexts = <<ObjInstance(1)>>

(***************************************************************************)
(* Calls: main passes its local x and a constant to callee(out a, b);      *)
(* callee calls itself once more when b is 2, then assigns its local and   *)
(* its parameters and returns.                                             *)
(***************************************************************************)
\* if (b == 2) { callee(a, 1); }  t = b;  b = 0;  a = 1;  return;
RecursiveBody ==
  LET code == <<JumpOp("JumpIfFalse", 0), Ins("Equals", "", 0), Ins("Param", "b", 0), K(2),
                Call(RootFunction("callee")), Ins("Param", "a", 0), K(1), Ins("ParamEnd", "", 0),
                Ins("Assign", "", 0), Ins("Local", "t", 0), Ins("Param", "b", 0),
                Ins("Assign", "", 0), Ins("Param", "b", 0), K(0),
                Ins("Assign", "", 0), Ins("Param", "a", 0), K(1),
                Ins("Return", "", 0), Ins("Nop", "", 0)>>
  IN [code EXCEPT ![1] = JumpOp("JumpIfFalse", Offsets(code)[9] - Offsets(code)[1])]

\* x = v;  callee(x, n);  x = 2;
CallMain(v, n) ==
  <<Ins("Assign", "", 0), Ins("Local", "x", 0), K(v),
    Call(RootFunction("callee")), Ins("Local", "x", 0), K(n), Ins("ParamEnd", "", 0),
    Ins("Assign", "", 0), Ins("Local", "x", 0), K(2)>>

CallPool(main) ==
  [OpenPool(<<"x", "y">>) EXCEPT
     !.free = FALSE,
     !.code = [f \in Functions |->
                 CASE f = RootFunction("main") -> main
                   [] f = RootFunction("callee") -> RecursiveBody
                   [] OTHER -> <<>>]]

InitCall == \E v \in 0..2, n \in 0..2 : NewVM(CallPool(CallMain(v, n)))

NextCall ==
  \/ FirstCall /\ HostCall("call_void", RootFunction("main"), <<>>)
  \/ HostReturn
  \/ InvokeStatic(RootFunction("callee"))
  \/ CallFunction
  \/ ReturnVoid
  \/ CodeEnd
  \/ CallExit
  \/ \E n \in 0..2 : ExecConst(I32(n))
  \/ ExecLocal("x")
  \/ \E idx \in {"a", "b"} : ExecParam(idx)
  \/ \E idx \in {"x", "t", "a", "b"} : Assign(idx)
  \/ AssignEnd
  \/ ExecEquals
  \/ EqualsEnd
  \/ \E offset \in 1..64 : JumpIfFalse(offset)
  \/ JumpIfFalseEnd

SpecCall == InitCall /\ [][NextCall]_vars

\* The number of calls of bytecode functions that are running.
RunningCalls(k) == Cardinality({i \in DOMAIN k : k[i].op = "Call"})

\* C31: when call_with_params starts a bytecode function with the provided
\* parameters p1..pk, the new local map binds pi to the i-th of the k values
\* on top of the stack (in push order) and every declared local to the
\* default of its type, and it is pushed on frames; frames holds one map per
\* running call, so this map is the top while the function's instructions
\* run; no step changes a map below the top; the exit of the call pops the
\* map, so that the depth is again the depth before the call.
C31_LocalMap ==
  [][status' = "ok"
       => /\ (Ready("InvokeStatic") /\ ~IsNative(Top(kont).fun))
               => LET ps == Top(kont).ps
                      k == Len(ps)
                      map == frames'[Len(frames')]
                      locals == Locals(pool, Top(kont).fun)
                  IN /\ Len(frames') = Len(frames) + 1
                     /\ stack' = SubSeq(stack, 1, Len(stack) - k)
                     /\ DOMAIN map = {ps[i] : i \in 1..k} \cup {locals[i] : i \in 1..Len(locals)}
                     /\ \A i \in 1..k : map[ps[i]] = stack[Len(stack) - k + i]
                     /\ \A i \in 1..Len(locals) : map[locals[i]] = I32(0)
          /\ Len(frames') = RunningCalls(kont')
          /\ \A i \in 1..(Len(frames) - 1) : i <= Len(frames') => frames'[i] = frames[i]
          /\ (pc \in {"Return", "Exit"}) => frames' = Pop(frames)
          /\ (Len(frames') = Len(frames) /\ frames # <<>>)
               => DOMAIN frames'[Len(frames)] = DOMAIN frames[Len(frames)]]_vars

\* The inner call of callee returned to the outer one, whose own map is the
\* top again: a is the cell of main's x, now 1 (written by the inner call),
\* b is still 2 and t still the default.
C31_Witness ==
  /\ last = "Exit"
  /\ status = "ok"
  /\ Len(frames) = 2
  /\ frames[2]["a"].t = "Pinned"
  /\ frames[2]["a"] = frames[1]["x"]
  /\ heap[frames[2]["a"].v].m = <<I32(1)>>
  /\ frames[2]["b"] = I32(2)
  /\ frames[2]["t"] = I32(0)

(***************************************************************************)
(* Omitted arguments: main calls callee(out a, b) with each argument       *)
(* either a constant or the Nop placeholder, followed by no, one or two    *)
(* ParamEnd; callee copies b into its local.                               *)
(***************************************************************************)
Arguments == {Ins("Nop", "", 0), K(1), K(2)}

\* callee(a, b) ParamEnd* ; x = 2;
OmitMain(a, b, ends) ==
  <<Call(RootFunction("callee")), a, b>>
    \o [i \in 1..ends |-> Ins("ParamEnd", "", 0)]
    \o <<Ins("Assign", "", 0), Ins("Local", "x", 0), K(2)>>

\* t = b; return;
CopyParam ==
  <<Ins("Assign", "", 0), Ins("Local", "t", 0), Ins("Param", "b", 0),
    Ins("Return", "", 0), Ins("Nop", "", 0)>>

OmitPool(main) ==
  [OpenPool(<<"x">>) EXCEPT
     !.free = FALSE,
     !.code = [f \in Functions |->
                 CASE f = RootFunction("main") -> main
                   [] f = RootFunction("callee") -> CopyParam
                   [] OTHER -> <<>>]]

InitOmit == \E a \in Arguments, b \in Arguments, ends \in 0..2 : NewVM(OmitPool(OmitMain(a, b, ends)))

NextOmit ==
  \/ FirstCall /\ HostCall("call_void", RootFunction("main"), <<>>)
  \/ HostReturn
  \/ InvokeStatic(RootFunction("callee"))
  \/ ExecNop
  \/ ExecParamEnd
  \/ CallFunction
  \/ ReturnVoid
  \/ CodeEnd
  \/ CallExit
  \/ \E n \in {1, 2} : ExecConst(I32(n))
  \/ ExecParam("b")
  \/ \E idx \in {"x", "t"} : Assign(idx)
  \/ AssignEnd

SpecOmit == InitOmit /\ [][NextOmit]_vars

\* call_static has evaluated the arguments of main's call of callee.
CalleeReady == Ready("InvokeStatic") /\ Len(frames) = 1 /\ Top(kont).fun = RootFunction("callee")

\* C32: a Nop in an argument position pushes nothing; when call_static has
\* gone through the arguments the call starts without error, the map of
\* callee binds exactly the parameters whose argument is not Nop, each to
\* the value of its own argument, the operands are consumed, and main goes
\* on after the call's arguments and after one ParamEnd when one follows:
\* a second ParamEnd is executed as an instruction.
C32_OmittedArgument ==
  [][/\ (pc = "Fetch" /\ last' = "Nop") => stack' = stack /\ frames' = frames
     /\ CalleeReady
          => LET code == pool.code[RootFunction("main")]
                 ps == Parameters(RootFunction("callee"))
                 map == frames'[2]
                 main == kont'[CallIndex(kont)]
             IN /\ status' = "ok"
                /\ Len(frames') = 2
                /\ stack' = <<>>
                /\ \A i \in 1..Len(ps) :
                     IF code[1 + i].op = "Nop" THEN ps[i] \notin DOMAIN map
                     ELSE ps[i] \in DOMAIN map /\ map[ps[i]] = I32(code[1 + i].idx)
                /\ main.ip = 3 + (IF code[4].op = "ParamEnd" THEN 1 ELSE 0)
     /\ (pc = "Fetch" /\ last' = "ParamEnd")
          => /\ CurrentIp = 4
             /\ pool.code[RootFunction("main")][4].op = "ParamEnd"
             /\ UNCHANGED <<stack, frames, heap>>]_vars

\* callee(Nop, 2): the call returned with t = b = 2 copied, a was never
\* bound.
C32_Witness ==
  /\ pc = "Exit"
  /\ Len(frames) = 2
  /\ pool.code[RootFunction("main")][2].op = "Nop"
  /\ DOMAIN frames[2] = {"b", "t"}
  /\ frames[2]["b"] = I32(2)
  /\ frames[2]["t"] = I32(2)

(***************************************************************************)
(* Jumps: main is an if/else over a Bool constant (JumpIfFalse over the     *)
(* then branch, Jump over the else branch) or a forward Jump followed by a *)
(* backward one; the branches assign constants of different encoded sizes. *)
(***************************************************************************)
\* The offset of every Jump and JumpIfFalse written as the index of its
\* target: the target's location minus the instruction's own.
LinkJumps(code) ==
  [i \in DOMAIN code |->
     IF code[i].op \in {"Jump", "JumpIfFalse"}
     THEN JumpOp(code[i].op, Offsets(code)[code[i].to[1]] - Offsets(code)[i])
     ELSE code[i]]

\* if (c) { x = v; } else { x = w; }  return;
IfElse(c, v, w) ==
  LinkJumps(<<JumpOp("JumpIfFalse", 7), Ins("Const", "Bool", c),
              Ins("Assign", "", 0), Ins("Local", "x", 0), K(v), JumpOp("Jump", 10),
              Ins("Assign", "", 0), Ins("Local", "x", 0), K(w),
              Ins("Return", "", 0), Ins("Nop", "", 0)>>)

\* goto body; end: return;  body: x = v; goto end;
BackAndForth(v) ==
  LinkJumps(<<JumpOp("Jump", 4), Ins("Return", "", 0), Ins("Nop", "", 0),
              Ins("Assign", "", 0), Ins("Local", "x", 0), K(v), JumpOp("Jump", 2)>>)

JumpPrograms ==
  {IfElse(c, v, w) : c \in {0, 1}, v \in 0..2, w \in 0..2} \cup {BackAndForth(v) : v \in 0..2}

JumpPool(main) ==
  [OpenPool(<<"x">>) EXCEPT
     !.free = FALSE,
     !.code = [f \in Functions |-> IF f = RootFunction("main") THEN main ELSE <<>>]]

InitJump == \E main \in JumpPrograms : NewVM(JumpPool(main))

NextJump ==
  \/ FirstCall /\ HostCall("call_void", RootFunction("main"), <<>>)
  \/ HostReturn
  \/ CallFunction
  \/ ReturnVoid
  \/ CallExit
  \/ \E n \in 0..2 : ExecConst(I32(n))
  \/ \E b \in BOOLEAN : ExecConst(Bool(b))
  \/ Assign("x")
  \/ AssignEnd
  \/ \E offset \in (0 - 32)..32 : ExecJump(offset)
  \/ \E offset \in 1..32 : JumpIfFalse(offset)
  \/ JumpIfFalseEnd

SpecJump == InitJump /\ [][NextJump]_vars

\* The sum of the encoded sizes of the first n instructions of code.
RECURSIVE SizeSum(_, _)
SizeSum(code, n) == IF n = 0 THEN 0 ELSE Size(code[n]) + SizeSum(code, n - 1)

\* offsets of a function's code is what the claim says it is.
OffsetsOk(code) ==
  LET offsets == Offsets(code)
  IN /\ Len(offsets) = Len(code)
     /\ offsets[1] = 0
     /\ \A i \in 1..Len(code) : offsets[i] = SizeSum(code, i - 1)
     /\ \A i \in 1..(Len(code) - 1) : offsets[i] < offsets[i + 1]
     /\ \A i \in 1..Len(code) : BinarySearch(code, offsets[i]) = i - 1

\* C33: the offsets of every function with code are the running sums of the
\* instruction sizes, strictly increasing, and seek of offsets[i] gives i;
\* a Jump at instruction j leaves Frame::ip at the instruction whose offset
\* is offsets[j] plus the jump's offset; a JumpIfFalse at j does the same
\* when the popped condition is false and leaves ip after the condition when
\* it is true.
C33_OffsetsAndJumps ==
  [][/\ \A f \in Functions : pool.code[f] # <<>> => OffsetsOk(pool.code[f])
     /\ (pc = "Fetch" /\ last' = "Jump")
          => LET j == CurrentIp + 1
             IN /\ status' = "ok"
                /\ Offsets(CurrentCode)[NextIp + 1] = Offsets(CurrentCode)[j] + CurrentCode[j].to[1]
                /\ UNCHANGED <<stack, frames, heap>>
     /\ Ready("JumpIfFalse")
          => LET j == CurrentIp - 1
             IN /\ status' = "ok"
                /\ CurrentCode[j].op = "JumpIfFalse"
                /\ stack' = Drop(stack, 1)
                /\ IF Top(stack) = Bool(FALSE)
                   THEN Offsets(CurrentCode)[NextIp + 1] = Offsets(CurrentCode)[j] + CurrentCode[j].to[1]
                   ELSE NextIp = CurrentIp]_vars

\* The condition was false: the else branch assigned x and the then branch
\* did not run; the backward jump reached the return.
C33_Witness ==
  /\ last = "Return"
  /\ CurrentCode[1].op = "JumpIfFalse"
  /\ CurrentCode[2] = Ins("Const", "Bool", 0)
  /\ CurrentCode[5] = K(2)
  /\ CurrentCode[9] = K(1)
  /\ frames[1]["x"] = I32(1)

C33_WitnessBackward ==
  /\ last = "Return"
  /\ CurrentCode[1].op = "Jump"
  /\ frames[1]["x"] = I32(2)

(***************************************************************************)
(* ArrayRemove: main pushes up to three elements on its array local and    *)
(* removes a needle: Int32 elements and needles, an object that was pushed *)
(* and is the needle, the array itself and a struct as needles.            *)
(***************************************************************************)
ArrLocal == Ins("Local", "arr", 0)

\* ArrayPush(arr, e);
PushElement(e) == <<Ins("ArrayPush", "", 0), ArrLocal, e>>

RECURSIVE PushElements(_)
PushElements(es) ==
  IF es = <<>> THEN <<>> ELSE PushElement(K(es[1])) \o PushElements(Tail(es))

\* ArrayRemove(arr, needle);
RemoveElement(needle) == <<Ins("ArrayRemove", "", 0), ArrLocal, needle>>

ElementSeqs ==
  {<<>>} \cup {<<a>> : a \in 1..2} \cup {<<a, b>> : a, b \in 1..2}
    \cup {<<a, b, c>> : a, b, c \in 1..2}

RemovePrograms ==
  {[locals |-> <<"arr">>, code |-> PushElements(es) \o RemoveElement(K(n))] :
     es \in ElementSeqs, n \in 0..2}
    \cup {[locals |-> <<"arr">>, code |-> PushElements(<<1>>) \o RemoveElement(ArrLocal)],
          [locals |-> <<"arr", "s">>,
           code |-> PushElements(<<1>>) \o RemoveElement(Ins("Local", "s", 0))],
          [locals |-> <<"arr", "o">>,
           code |-> <<Ins("Assign", "", 0), Ins("Local", "o", 0), Ins("New", "", 1)>>
                      \o PushElement(Ins("Local", "o", 0))
                      \o RemoveElement(Ins("Local", "o", 0))]}

RemovePool(prog) ==
  [OpenPool(prog.locals) EXCEPT
     !.free = FALSE,
     !.code = [f \in Functions |-> IF f = RootFunction("main") THEN prog.code ELSE <<>>]]

InitRemove == \E prog \in RemovePrograms : NewVM(RemovePool(prog))

NextRemove ==
  \/ FirstCall /\ HostCall("call_void", RootFunction("main"), <<>>)
  \/ HostReturn
  \/ CallFunction
  \/ CodeEnd
  \/ CallExit
  \/ \E n \in 0..2 : ExecConst(I32(n))
  \/ \E idx \in {"arr", "s", "o"} : ExecLocal(idx)
  \/ ExecNew(1)
  \/ Assign("o")
  \/ AssignEnd
  \/ \E op \in {"ArrayPush", "ArrayRemove"} : ExecArray(op)
  \/ ArrayPushEnd
  \/ ArrayRemoveEnd

SpecRemove == InitRemove /\ [][NextRemove]_vars

C34_WitnessObject ==
  /\ last = "ArrayRemove"
  /\ Len(frames) = 1
  /\ "o" \in DOMAIN frames[1]
  /\ heap[frames[1]["arr"].v].m = <<frames[1]["o"]>>
  /\ stack = <<Bool(FALSE)>>

(***************************************************************************)
(* FromVariant: main applies FromVariant(T), for every resolved type T, to *)
(* a new instance of any class, to null, to a number, a Bool or its local, *)
(* under every class hierarchy.                                            *)
(***************************************************************************)
VariantPools ==
  {[OpenPool(<<"o">>) EXCEPT !.base = b] :
     b \in {f \in [Classes -> 0..NumClasses] : \A c \in Classes : f[c] < c}}

InitVariant == \E p \in VariantPools : NewVM(p)

NextVariant ==
  \/ FirstCall /\ HostCall("call_void", RootFunction("main"), <<>>)
  \/ HostReturn
  \/ CallFunction
  \/ CallExit
  \/ ReturnTyped(FALSE) /\ ReturnVoid
  \/ \E typ \in TypeIds : AtStatement /\ stack = <<>> /\ ExecFromVariant(typ)
  \/ FromVariantEnd
  \/ \E c \in Classes : AtOperand /\ ExecNew(c)
  \/ AtOperand /\ ExecConst(ObjNull)
  \/ AtOperand /\ ExecConst(I32(1))
  \/ AtOperand /\ ExecConst(Bool(TRUE))
  \/ AtOperand /\ ExecLocal("o")

SpecVariant == InitVariant /\ [][NextVariant]_vars

\* The type of the FromVariant whose block is about to run.
VariantType == TypeId(Top(kont).loc, Top(kont).idx)

\* c is a strict subclass of d: d is on c's chain of bases and is not c.
StrictSubclass(c, d) ==
  c # d /\ \E i \in DOMAIN Bases(pool, c) : Bases(pool, c)[i] = d

\* C35: FromVariant(T) leaves its operand's value when the value has type T
\* and Obj(Null) otherwise; under T = Ref(c) or WRef(c) an instance stays
\* only when its tag is c, so an instance of a strict subclass of c becomes
\* null, and null stays under every Ref and WRef.
C35_FromVariant ==
  [][Ready("FromVariant")
       => LET val == Top(stack)
              typ == VariantType
          IN /\ status' = "ok"
             /\ heap' = heap
             /\ stack' = Append(Drop(stack, 1),
                                IF HasType(heap, val, typ) THEN val ELSE ObjNull)
             /\ (val.t = "Obj" /\ val.v # 0 /\ typ.id \in {"Ref", "WRef"})
                  => /\ heap[val.v].tag = typ.idx => Top(stack') = val
                     /\ heap[val.v].tag # typ.idx => Top(stack') = ObjNull
                     /\ StrictSubclass(heap[val.v].tag, typ.idx) => Top(stack') = ObjNull
             /\ (val.t = "Obj" /\ val.v # 0 /\ typ.id \notin {"Ref", "WRef"})
                  => Top(stack') = ObjNull
             /\ (val = ObjNull /\ typ.id \in {"Ref", "WRef"}) => Top(stack') = val
             /\ val.t \in {"I32", "Bool"} => Top(stack') = IF typ.id = val.t THEN val ELSE ObjNull]_vars

\* FromVariant(Ref(1)) ran over an instance of class 2, whose base is class
\* 1, and left null.
C35_Witness ==
  /\ last = "FromVariant"
  /\ pool.base[2] = 1
  /\ Len(heap) = 1
  /\ heap[1].tag = 2
  /\ stack = <<ObjNull>>

\* FromVariant(WRef(2)) ran over an instance of class 2 and left it.
C35_WitnessKept ==
  /\ last = "FromVariant"
  /\ Len(heap) = 1
  /\ heap[1].tag = 2
  /\ stack = <<ObjInstance(1)>>

(***************************************************************************)
(* Repeated calls: the host calls main, callee, OperatorAdd and Log with   *)
(* call_with_callback, again and again for as long as no call has failed.  *)
(* The bodies leave values of expression statements on the stack (the      *)
(* constant 2, results of calls), main runs Log or Undefined under a       *)
(* Context over a new instance, callee returns 1.                          *)
(***************************************************************************)
InitRepeat == NewVM(OpenPool(<<>>))

RepeatTargets ==
  {RootFunction("main"), RootFunction("callee"), RootFunction("OperatorAdd"), RootFunction("Log")}

\* No call has returned an error: the host goes on calling.
NoneFailed == status = "ok"

InMain == CallIndex(kont) # 0 /\ CurrentFunction = RootFunction("main")

NextRepeat ==
  \/ \E f \in RepeatTargets, n \in 0..2 :
       NoneFailed /\ HostCall("call_with_callback", f, [i \in 1..n |-> I32(1)])
  \/ HostReturn
  \/ AtStatement /\ ExecConst(I32(2))
  \/ AtOperand /\ InMain /\ ExecNew(1)
  \/ AtOperand /\ ~InMain /\ ExecConst(I32(1))
  \/ AtStatement /\ InMain /\ Context
  \/ ContextEnter
  \/ ContextEnd
  \/ \E f \in {RootFunction("Log"), RootFunction("Undefined")} : AtMember /\ InvokeStatic(f)
  \/ \E f \in {RootFunction("callee"), RootFunction("OperatorAdd")} :
       AtStatement /\ InMain /\ InvokeStatic(f)
  \/ AtOperand /\ InMain /\ Top(kont).op = "InvokeStatic" /\ ExecConst(I32(1))
  \/ CallNativeFunction
  \/ CallFunction
  \/ ReturnTyped(TRUE) /\ Return
  \/ ReturnValue
  \/ ReturnTyped(FALSE) /\ ReturnVoid
  \/ CallExit

SpecRepeat == InitRepeat /\ [][NextRepeat]_vars

\* The step returns from the function the host called to call_with_callback.
BackToHost == pc' = "Callback" /\ status' = "ok" /\ pc # "Callback"

\* C36: between top-level call_with_callback calls that all completed
\* without error, the operand stack, the frames stack and the context stack
\* are empty; and when call_void returns to call_with_callback the stack
\* holds the called function's return value alone (the value its Return
\* evaluated, the native's result), or nothing for a function that returns
\* nothing: the value the callback gets was never left by an earlier call or
\* by an expression statement.
C36_CleanBetweenCalls ==
  /\ [](pc = "Host" /\ status = "ok"
          => stack = <<>> /\ frames = <<>> /\ contexts = <<>>)
  /\ [][BackToHost
          => /\ frames' = <<>>
             /\ contexts' = <<>>
             /\ Top(kont).op \in {"Call", "InvokeStatic"}
             /\ Top(kont).op = "Call"
                  => /\ ReturnsValue(Top(kont).fun) = (pc = "Return")
                     /\ stack' = IF pc = "Return" THEN <<Top(stack)>> ELSE <<>>
             /\ Top(kont).op = "InvokeStatic"
                  => stack' = IF Top(kont).fun = RootFunction("OperatorAdd")
                              THEN <<I32(Top(stack).v + Peek(stack, 2).v)>> ELSE <<>>]_vars

\* callee returned 1 to the host over its own leftovers, after an earlier
\* call of main that made an instance; the callback gets that 1.
C36_Witness ==
  /\ pc = "Callback"
  /\ last = "Exit"
  /\ heap # <<>>
  /\ stack = <<I32(1)>>
  /\ frames = <<>>
  /\ contexts = <<>>

\* A call that failed under a Context left its local map and its receiver:
\* the host calls no more.
C36_WitnessFailed ==
  /\ pc = "Host"
  /\ status # "ok"
  /\ frames # <<>>
  /\ contexts # <<>>

(***************************************************************************)
(* Value semantics of locals, under the statements of SpecPin: main has    *)
(* the Int32 locals x and y, assigns them from constants and from each     *)
(* other and passes them to OperatorAssignAdd as out arguments.            *)
(***************************************************************************)
\* Two distinct locals of the local map m hold the same Pinned cell.
SharePin(m) ==
  \E a, b \in DOMAIN m : a # b /\ IsPinned(m[a]) /\ IsPinned(m[b]) /\ m[a].v = m[b].v

\* C37: two distinct locals of one frame never hold the same Pinned cell,
\* and an Assign to a local leaves the value read from every other local
\* of the frame as it was.
C37_LocalsDoNotAlias ==
  /\ [](\A i \in DOMAIN frames : ~SharePin(frames[i]))
  /\ [][(Ready("AssignLocal") /\ status' = "ok")
          => \A b \in DOMAIN Top(frames) \ {Top(kont).loc} :
               Unpinned(heap', Top(frames')[b]) = Unpinned(heap, Top(frames)[b])]_vars

(***************************************************************************)
(* Heap strings against interned strings, and the symmetry of equals, over *)
(* the pairs of values of SpecEquals.                                      *)
(***************************************************************************)
\* What equals answers for the same two operands in the other order.
Swapped == BinopEquals([Root EXCEPT !.stack = <<Top(kont).arg[2], Top(kont).arg[1]>>]).stack

\* One operand is a Str and the other an InternStr of kind String.
HeapAgainstInterned ==
  LET a == Unpinned(heap, Top(kont).arg[1])
      b == Unpinned(heap, Top(kont).arg[2])
  IN \/ a.t = "Str" /\ b.t = "InternStr" /\ b.kind = "String"
     \/ b.t = "Str" /\ a.t = "InternStr" /\ a.kind = "String"

\* C38: equals of a Str and an InternStr of kind String is false in both
\* orders, whatever the text of the pool string, and for every pair of
\* values equals answers the same in both orders.
C38_HeapAndInternedStrings ==
  last = "equals"
    => /\ HeapAgainstInterned => stack = <<Bool(FALSE)>>
       /\ stack = Swapped

\* The Str "a" was compared with the pool string of index 1, which is "a",
\* and found different.
C38_Witness ==
  /\ last = "equals"
  /\ Top(kont).arg = <<Str(1), InternStr("String", 1)>>
  /\ heap = <<StrCell("a")>>
  /\ PoolStrings[2] = heap[1].text
  /\ stack = <<Bool(FALSE)>>

\* The same pair in the other order, the Str behind a Pinned cell.
C38_WitnessSwapped ==
  /\ last = "equals"
  /\ Top(kont).arg = <<InternStr("String", 1), Pinned(2)>>
  /\ heap = <<StrCell("a"), PinCell(Str(1))>>
  /\ stack = <<Bool(FALSE)>>

(***************************************************************************)
(* Failed calls: the host calls main and callee again and again, whatever  *)
(* the earlier calls returned.  The bodies leave values of expression      *)
(* statements on the stack, main calls callee, and both run Log, Undefined *)
(* and an ObjectField read under a Context over a new instance or null.    *)
(***************************************************************************)
InitFail == NewVM(OpenPool(<<>>))

NextFail ==
  \/ CallAgain /\ HostCall("call_void", RootFunction("main"), <<>>)
  \/ CallAgain /\ HostCall("call_with_callback", RootFunction("callee"), <<I32(1), I32(1)>>)
  \/ HostReturn
  \/ AtStatement /\ InMain /\ ExecConst(I32(2))
  \/ AtOperand /\ Top(kont).op = "Context" /\ InMain /\ ExecNew(1)
  \/ AtOperand /\ Top(kont).op = "Context" /\ ~InMain /\ ExecConst(ObjNull)
  \/ AtOperand /\ Top(kont).op # "Context" /\ ExecConst(I32(1))
  \/ AtStatement /\ Context
  \/ ContextEnter
  \/ ContextEnd
  \/ \E f \in {RootFunction("Log"), RootFunction("Undefined")} : AtMember /\ InvokeStatic(f)
  \/ AtMember /\ ExecObjectField(1)
  \/ AtStatement /\ InMain /\ InvokeStatic(RootFunction("callee"))
  \/ CallNativeFunction
  \/ CallFunction
  \/ ReturnTyped(TRUE) /\ Return
  \/ ReturnValue
  \/ ReturnTyped(FALSE) /\ ReturnVoid
  \/ CallExit

SpecFail == InitFail /\ [][NextFail]_vars

\* The local maps that were on frames when the host's call started: those
\* below the maps of the running calls.
MapsBelow(k, fs) == Len(fs) - RunningCalls(k)

\* The receivers that were on the context stack when the host's call
\* started: those below the receivers of the waiting Context handlers.
ReceiversBelow(k, p, cs) == Len(cs) - Depth(k, p, Len(k))

\* The step returns Err from inside the body of a bytecode function.
BodyFails == status' \notin {"ok", "panic"} /\ RunningCalls(kont) > 0

\* C39: when the body of a bytecode function returns an error, the local
\* maps of all the active bytecode calls stay on frames, the receivers of
\* the enclosing Contexts stay on the context stack and the operand stack
\* is not truncated to any Frame::sp; the host gets a VM whose frames stack
\* is deeper than before the call by the number of calls that were active,
\* and its next call leaves all of that in place.
C39_FailedCallLeavesState ==
  [][/\ (status' = "ok" /\ kont' # <<>> /\ kont # <<>>)
          => /\ MapsBelow(kont', frames') = MapsBelow(kont, frames)
             /\ ReceiversBelow(kont', pc', contexts') = ReceiversBelow(kont, pc, contexts)
     /\ BodyFails
          => /\ kont' = <<>>
             /\ pc' = "Host"
             /\ frames' = frames
             /\ Len(frames') = MapsBelow(kont, frames) + RunningCalls(kont)
             /\ contexts' = contexts
             /\ stack' = stack
     /\ last' = "call_void"
          => /\ frames' = frames
             /\ contexts' = contexts
             /\ SubSeq(stack', 1, Len(stack)) = stack
             /\ status' = "ok" => MapsBelow(kont', frames') = Len(frames)]_vars

\* The ObjectField read failed under a Context over null in callee, called
\* by main after a leftover: two local maps, the receiver and the leftover
\* stay, and the next call has started over them.
C39_Witness ==
  /\ last = "call_void"
  /\ status = "ok"
  /\ MapsBelow(kont, frames) = 2
  /\ contexts = <<ObjNull>>
  /\ Len(stack) >= 1
  /\ stack[1] = I32(2)

\* The failed call has just returned to the host with two maps left.
C39_WitnessFailed ==
  /\ pc = "Host"
  /\ kont = <<>>
  /\ status = "NullPointer"
  /\ Len(frames) = 2
  /\ contexts = <<ObjNull>>
  /\ stack = <<I32(2)>>

\* Undefined failed under a Context over an instance in main.
C39_WitnessReceiver ==
  /\ pc = "Host"
  /\ kont = <<>>
  /\ status = UndefinedNative("Undefined")
  /\ Len(frames) = 1
  /\ contexts = <<ObjInstance(1)>>

(***************************************************************************)
(* Assignment to a field of a struct local, under the statements of        *)
(* SpecStruct: main has the struct local s, whose fields start at 0, and   *)
(* assigns 1 or 2 to its fields.                                           *)
(***************************************************************************)
\* What StructField(fd) over Local(s) yields in the root r.
ReadFieldOfS(r, fd) == Top(ReadStructField(ReadLocal(r, "s", FALSE), fd, FALSE).stack)

\* C40: after Assign StructField(f) over Local(s) of a value v, a read of
\* StructField(f) over Local(s) in the same frame yields v and a read of
\* any other field of s yields what it did before.
C40_StructFieldAssigned ==
  [][(Ready("AssignStructField") /\ status' = "ok" /\ HasLocal("s"))
       => LET after == [Root EXCEPT !.heap = heap', !.stack = stack', !.frames = frames']
          IN \A i \in DOMAIN StructFields :
               ReadFieldOfS(after, StructFields[i])
                 = IF StructFields[i] = Top(kont).idx THEN Top(stack)
                   ELSE ReadFieldOfS(Root, StructFields[i])]_vars

====
